---- MODULE Spec2Model ----
(***************************************************************************)
(* State machine of the moziboard backend (Go, fiber + pgx): the boards    *)
(* and tasks tables, the activities ledger, the embedding column, the live *)
(* set of websocket connections, the createBoard / createTask / updateTask *)
(* handlers, the listing of a board, the goroutines the handlers start     *)
(* (logActivity, updateEmbedding, broadcastUpdate), the documents table    *)
(* with its handlers and updateDocEmbedding, the provider chain of         *)
(* generateEmbedding, and the two semantic searches.                       *)
(*                                                                         *)
(* Spec          requests served one after the other, each handler running *)
(*               to its response; started goroutines stay pending.         *)
(* SpecLedger    the handlers together with the scheduling of the started  *)
(*               logActivity goroutines (the ledger inserts).              *)
(* SpecBoard     the handlers that write what the listing of a board reads.*)
(* SpecAsync     the handlers with every goroutine they start and one      *)
(*               websocket connection.                                     *)
(* SpecNotifier  the handlers, the websocket handlers and the broadcasts,  *)
(*               step by step around clientsMu; SpecNotifierFair adds the  *)
(*               fairness of the goroutines that hold or await the mutex.  *)
(* SpecIndexer   the task handlers and their indexing goroutines, run in   *)
(*               any order.                                                *)
(* SpecProvider  the indexing goroutines of tasks and documents against    *)
(*               every environment and provider answer.                    *)
(* SpecSearch    documents written, indexed, deleted and searched.         *)
(* SpecRanking   the searches over tables of up to MaxRows rows.           *)
(* SpecRepository the task, document and membership handlers against the   *)
(*               foreign keys of the schema.                               *)
(* SpecLists     every handler that answers with a list, after the writes  *)
(*               that fill the tables.                                     *)
(* SpecHistory   updates of tasks, their logActivity goroutines and the    *)
(*               reading of a task's activities.                           *)
(* SpecCascade   boards created and deleted with their tasks, documents    *)
(*               and memberships.                                          *)
(* SpecConcurrent update handlers interleaved between SELECT and UPDATE.   *)
(* SpecAdapter   the MCP adapter (mcp-server/src/index.ts): middleware,    *)
(*               routes, transports and the registry of sessions.          *)
(* SpecDispatcher the dispatcher (scripts/dispatcher.js): overlapping poll *)
(*               cycles against the server.                                *)
(***************************************************************************)
EXTENDS Integers, Sequences, FiniteSets, TLC

\* ------------------------------------------------------------------ bounds
MaxTasks == 2
MaxUpdates == 2
MaxPos == 1
MaxPending == 3
MaxCalls == 2
MaxDocs == 2
MaxRows == 7
MaxSame == 2
MaxTransports == 1
MaxCycles == 2

\* ------------------------------------------------------------ value domains
\* members seeded by seedMembers (three of the five: the human and two agents)
Members == {"mirza", "kodinger", "devo"}
\* websocket connections accepted on /ws
Conns == {"w1", "w2"}
\* the connection accepted where every goroutine of a call is scheduled
AsyncConns == {"w1"}
\* board ids the boards table can hold
BoardIds == {"b1", "b2"}
\* a *string: the nil pointer or a pointer to a string
Nil == <<>>
Ptr(s) == <<s>>
\* a JSON member of the request body: absent, or present with a value
Absent == <<>>
Some(v) == <<v>>
Opt(S) == {Absent} \cup {Some(v) : v \in S}

TaskIds == 1..MaxTasks
DocIds == 1..MaxDocs

\* JSON request bodies of PUT /api/tasks/:id
Present(p) ==
    {f \in {"title", "description", "list_id", "position", "assignee_id", "board_id", "updated_by"} : p[f] # Absent}
\* the body {} and the bodies that carry one member
NoMembers ==
    [title |-> Absent, description |-> Absent, list_id |-> Absent, position |-> Absent,
     assignee_id |-> Absent, board_id |-> Absent, updated_by |-> Absent]
OneMember ==
    {[NoMembers EXCEPT !.title = Some(v)] : v \in {"", "B"}}
    \cup {[NoMembers EXCEPT !.description = Some(v)] : v \in {"d1", "d2"}}
    \cup {[NoMembers EXCEPT !.list_id = Some(v)] : v \in {"", "todo", "doing"}}
    \cup {[NoMembers EXCEPT !.position = Some(v)] : v \in 0..MaxPos}
    \cup {[NoMembers EXCEPT !.assignee_id = Some(v)] : v \in {Nil, Ptr(""), Ptr("kodinger"), Ptr("devo")}}
    \cup {[NoMembers EXCEPT !.board_id = Some(v)] : v \in {"b2"}}
    \cup {[NoMembers EXCEPT !.updated_by = Some(v)] : v \in {"devo"}}
\* bodies that carry two members: a rename with a change of board, position 0
\* with an empty list_id, a move with a reassignment, the dispatcher's move
\* signed by an agent, a new description with an empty updated_by
TwoMembers ==
    {[NoMembers EXCEPT !.title = Some("B"), !.board_id = Some("b2")],
     [NoMembers EXCEPT !.position = Some(0), !.list_id = Some("")],
     [NoMembers EXCEPT !.list_id = Some("doing"), !.assignee_id = Some(Ptr("devo"))],
     [NoMembers EXCEPT !.list_id = Some("doing"), !.updated_by = Some("devo")],
     [NoMembers EXCEPT !.description = Some("d1"), !.updated_by = Some("")]}
Payloads == {NoMembers} \cup OneMember \cup TwoMembers

\* JSON request bodies of POST /api/tasks
\* the body {} and a title alone
CreatePayloads == {NoMembers, [NoMembers EXCEPT !.title = Some("A")]}

\* request bodies used where the tasks of a board are listed: creations with
\* a title alone and with a list, a position and a board, updates of the
\* position and of the board
BoardCreatePayloads ==
    {[NoMembers EXCEPT !.title = Some("A")],
     [NoMembers EXCEPT !.title = Some("A"), !.list_id = Some("doing"), !.position = Some(1),
                       !.board_id = Some("b2")]}
BoardPayloads ==
    {[NoMembers EXCEPT !.position = Some(v)] : v \in 0..MaxPos}
    \cup {[NoMembers EXCEPT !.board_id = Some("b2"), !.position = Some(1)]}

\* request bodies used where every goroutine of a call is scheduled
AsyncPayloads == {[NoMembers EXCEPT !.description = Some("d1")]}

\* request bodies and provider answers used where the indexing jobs of one
\* task race: the description is rewritten twice
IndexerCreatePayloads == {[NoMembers EXCEPT !.title = Some("A")]}
IndexerPayloads ==
    {[NoMembers EXCEPT !.description = Some("d1")],
     [NoMembers EXCEPT !.description = Some("d2")]}
IndexerAnswers == {"200", "500"}

\* JSON request bodies of POST /api/boards/:id/docs and PUT /api/docs/:id as
\* BodyParser leaves them in a Document (an absent member is ""): the
\* bodies used where the goroutines meet every provider answer
ProviderDocPayloads == {[title |-> "A", content |-> ""], [title |-> "", content |-> "c"]}

\* queries, document bodies and provider answers used where searches run
\* between the writes and the indexing goroutines
Queries == {"", "A"}
SearchDocPayloads == {[title |-> "A", content |-> ""], [title |-> "B", content |-> "c"]}
SearchAnswers == {"200", "500"}

\* queries used where the ranking of full tables is checked
RankingQueries == {"A"}

\* request bodies used where every table is written: a creation without an
\* assignee and one with a member that does not exist, updates of one
\* field each, a document
RepositoryCreatePayloads ==
    {[NoMembers EXCEPT !.title = Some("A")],
     [NoMembers EXCEPT !.title = Some("A"), !.assignee_id = Some(Ptr("ghost"))]}
RepositoryPayloads ==
    {[NoMembers EXCEPT !.title = Some("B")],
     [NoMembers EXCEPT !.position = Some(1)],
     [NoMembers EXCEPT !.board_id = Some("b2")],
     [NoMembers EXCEPT !.list_id = Some("doing")],
     [NoMembers EXCEPT !.assignee_id = Some(Ptr("devo"))],
     [NoMembers EXCEPT !.description = Some("d1")]}
\* an update that names a member that does not exist
UnknownMemberPayloads == {[NoMembers EXCEPT !.assignee_id = Some(Ptr("ghost"))]}
ConcurrentPayloads ==
    {[NoMembers EXCEPT !.description = Some("d1")],
     [NoMembers EXCEPT !.assignee_id = Some(Ptr("devo"))]}
\* tasks for the dispatcher: assigned to an agent in the default list,
\* assigned to an agent in a list written 'Todo', assigned to a human
DispatchCreatePayloads ==
    {[NoMembers EXCEPT !.title = Some("A"), !.assignee_id = Some(Ptr("devo"))],
     [NoMembers EXCEPT !.title = Some("B"), !.list_id = Some("Todo"),
                       !.assignee_id = Some(Ptr("kodinger"))],
     [NoMembers EXCEPT !.title = Some("A"), !.assignee_id = Some(Ptr("mirza"))]}
RepositoryDocPayloads == {[title |-> "A", content |-> "c"]}

\* request bodies used where the lists are read: an update that leaves one
\* activity
ListsPayloads == {[NoMembers EXCEPT !.description = Some("d2")]}

\* request bodies used where the history of a task is read: a move with a
\* new description, and a move back
HistoryPayloads ==
    {[NoMembers EXCEPT !.list_id = Some("doing"), !.description = Some("d1")],
     [NoMembers EXCEPT !.list_id = Some("todo")]}

\* request bodies used where a board is deleted: creations on either board
\* and the move of a task to the other board
CascadeCreatePayloads ==
    {[NoMembers EXCEPT !.title = Some("A"), !.board_id = Some(b)] : b \in BoardIds}
CascadePayloads == {[NoMembers EXCEPT !.board_id = Some("b2")]}

\* provider answers used where every goroutine of a call is scheduled
AsyncAnswers == {"200", "transport error"}

\* request bodies used where the ledger inserts are scheduled
LedgerPayloads ==
    [title : {Absent},
     description : Opt({"d1"}),
     list_id : Opt({"doing"}),
     position : {Absent},
     assignee_id : Opt({Ptr("kodinger")}),
     board_id : {Absent},
     updated_by : {Absent}]

\* boards    ids of the rows of table boards
\* tasks     rows of table tasks, by id
\* nextId    next value of the SERIAL sequence of tasks.id
\* pending   logActivity goroutines started and not yet run
\* activities rows of table activities in insertion order
\* last      the most recent request and its response
\* nUpdates  number of PUT /api/tasks/:id requests served
\* embedding  column embedding of table tasks, by task id
\* indexing   updateEmbedding and updateDocEmbedding goroutines started and
\*            not yet run
\* finished   the goroutines of indexing that have run: the job, the column
\*            value they found, the provider calls they made, their error
\* docs       rows of table documents, by id (column embedding included)
\* nextDocId  next value of the SERIAL sequence of documents.id
\* bcasts     broadcastUpdate goroutines, by the call that started them
\* clients    keys of the map clients (the live set)
\* clientsMu  "free" or the goroutine that holds the mutex
\* conns      websocket handlers: position in the handler, state of the peer
\* tokens     "UPDATE" messages written to each connection, in order, each
\*            labelled with the call whose broadcast wrote it
\* boardMembers rows of table board_members: <<board id, member id>>
\* inflight   updateTask handlers between their SELECT and their UPDATE
\* mcp        the protocol adapter: its credential, its registry of
\*            streamable sessions, its transports and its request log
\* disp       the dispatcher: its poll cycles and the sessions it spawned
VARIABLES boards, tasks, nextId, pending, activities, last, nUpdates,
          embedding, indexing, finished, docs, nextDocId,
          bcasts, clients, clientsMu, conns, tokens,
          boardMembers, inflight, mcp, disp

vars == <<boards, tasks, nextId, pending, activities, last, nUpdates,
          embedding, indexing, finished, docs, nextDocId,
          bcasts, clients, clientsMu, conns, tokens,
          boardMembers, inflight, mcp, disp>>
\* the tables and the request record / the realtime notifier
\* table board_members / the processes around the handlers
memberVars == <<boardMembers>>
outerVars == <<inflight, mcp, disp>>
\* every variable of the Go server
coreVars == <<boards, tasks, nextId, pending, activities, last, nUpdates, embedding, indexing,
              finished, docs, nextDocId, bcasts, clients, clientsMu, conns, tokens,
              boardMembers, inflight>>
storeVars == <<boards, tasks, nextId, pending, activities, last, nUpdates, embedding, indexing,
               finished, docs, nextDocId, memberVars, outerVars>>
\* table documents
docVars == <<docs, nextDocId>>
notifierVars == <<clients, clientsMu, conns, tokens>>

\* ---------------------------------------------------------------- helpers
\* c.BodyParser into a zeroed Task struct: an absent member leaves the Go
\* zero value ("" / 0 / nil), a JSON null assignee_id leaves the nil pointer
BodyParser(p) ==
    [BoardID |-> IF p.board_id = Absent THEN "" ELSE p.board_id[1],
     Title |-> IF p.title = Absent THEN "" ELSE p.title[1],
     Description |-> IF p.description = Absent THEN "" ELSE p.description[1],
     ListID |-> IF p.list_id = Absent THEN "" ELSE p.list_id[1],
     Position |-> IF p.position = Absent THEN 0 ELSE p.position[1],
     AssigneeID |-> IF p.assignee_id = Absent THEN Nil ELSE p.assignee_id[1],
     UpdatedBy |-> IF p.updated_by = Absent THEN "" ELSE p.updated_by[1]]

\* the row of a Task struct as the INSERT / UPDATE statement writes it
RowOf(t) ==
    [board_id |-> t.BoardID, title |-> t.Title, description |-> t.Description,
     list_id |-> t.ListID, position |-> t.Position, assignee_id |-> t.AssigneeID]

\* ForeignKeysHold without the reference from assignee_id to members
ForeignKeysHold_BoardOnly(t) == t.BoardID \in boards

\* ForeignKeysHold with a check that assignee_id is not empty in place of
\* the reference to members
ForeignKeysHold_NonEmptyAssignee(t) ==
    /\ t.BoardID \in boards
    /\ t.AssigneeID = Nil \/ t.AssigneeID[1] # ""

\* the foreign keys of the tasks table: fk_board and assignee_id REFERENCES members
ForeignKeysHold(t) ==
    /\ t.BoardID \in boards
    /\ t.AssigneeID = Nil \/ t.AssigneeID[1] \in Members

\* MergeTask writing the body's title without the empty-title guard
MergeTask_TitleVerbatim(oldTask, parsed) ==
    [BoardID |-> IF parsed.BoardID = "" THEN oldTask.board_id ELSE parsed.BoardID,
     Title |-> parsed.Title,
     Description |-> IF parsed.Description = "" THEN oldTask.description ELSE parsed.Description,
     ListID |-> IF parsed.ListID = "" THEN oldTask.list_id ELSE parsed.ListID,
     Position |-> parsed.Position,
     AssigneeID |-> IF parsed.AssigneeID = Nil THEN oldTask.assignee_id ELSE parsed.AssigneeID,
     UpdatedBy |-> parsed.UpdatedBy]

\* MergeTask treating position 0 as "keep the stored position"
MergeTask_ZeroKeepsPosition(oldTask, parsed) ==
    [BoardID |-> IF parsed.BoardID = "" THEN oldTask.board_id ELSE parsed.BoardID,
     Title |-> IF parsed.Title = "" THEN oldTask.title ELSE parsed.Title,
     Description |-> IF parsed.Description = "" THEN oldTask.description ELSE parsed.Description,
     ListID |-> IF parsed.ListID = "" THEN oldTask.list_id ELSE parsed.ListID,
     Position |-> IF parsed.Position = 0 THEN oldTask.position ELSE parsed.Position,
     AssigneeID |-> IF parsed.AssigneeID = Nil THEN oldTask.assignee_id ELSE parsed.AssigneeID,
     UpdatedBy |-> parsed.UpdatedBy]

\* "Preserve existing values if fields are empty/missing"
MergeTask(oldTask, parsed) ==
    [BoardID |-> IF parsed.BoardID = "" THEN oldTask.board_id ELSE parsed.BoardID,
     Title |-> IF parsed.Title = "" THEN oldTask.title ELSE parsed.Title,
     Description |-> IF parsed.Description = "" THEN oldTask.description ELSE parsed.Description,
     ListID |-> IF parsed.ListID = "" THEN oldTask.list_id ELSE parsed.ListID,
     Position |-> parsed.Position,
     AssigneeID |-> IF parsed.AssigneeID = Nil THEN oldTask.assignee_id ELSE parsed.AssigneeID,
     UpdatedBy |-> parsed.UpdatedBy]

\* UserIdOf without the default: the body's updated_by as it was parsed
UserIdOf_NoDefault(newTask) == newTask.UpdatedBy

\* userID := "mirza"; if newTask.UpdatedBy != "" { userID = newTask.UpdatedBy }
UserIdOf(newTask) == IF newTask.UpdatedBy # "" THEN newTask.UpdatedBy ELSE "mirza"

\* *AssigneeID or "" for nil
Deref(ptr) == IF ptr = Nil THEN "" ELSE ptr[1]

Activity(id, userID, action, details) ==
    [task_id |-> id, user_id |-> userID, action |-> action, details |-> details]

\* fmt.Sprintf("Moved to list %s", ...) / fmt.Sprintf("Assigned to %s", ...)
MovedDetails(listID) == <<"Moved to list", listID>>
AssignedDetails(a) == <<"Assigned to", a>>

\* MovedActs formatting the details with the list the task left
MovedActs_OldList(id, userID, oldTask, newTask) ==
    IF newTask.ListID # oldTask.list_id
    THEN <<Activity(id, userID, "moved", MovedDetails(oldTask.list_id))>>
    ELSE <<>>

\* if newTask.ListID != oldTask.ListID { go logActivity(..., "moved", ...) }
MovedActs(id, userID, oldTask, newTask) ==
    IF newTask.ListID # oldTask.list_id
    THEN <<Activity(id, userID, "moved", MovedDetails(newTask.ListID))>>
    ELSE <<>>

\* AssigneeActs logging only transitions from or to the empty assignee
AssigneeActs_SilentReassign(id, userID, oldTask, newTask) ==
    LET newAssignee == Deref(newTask.AssigneeID)
        oldAssignee == Deref(oldTask.assignee_id)
    IN IF newAssignee # oldAssignee /\ (newAssignee = "" \/ oldAssignee = "")
       THEN IF newAssignee # ""
            THEN <<Activity(id, userID, "assigned", AssignedDetails(newAssignee))>>
            ELSE <<Activity(id, userID, "unassigned", <<"Removed assignee">>)>>
       ELSE <<>>

\* AssigneeActs with the inner test inverted
AssigneeActs_Inverted(id, userID, oldTask, newTask) ==
    LET newAssignee == Deref(newTask.AssigneeID)
        oldAssignee == Deref(oldTask.assignee_id)
    IN IF newAssignee # oldAssignee
       THEN IF newAssignee = ""
            THEN <<Activity(id, userID, "assigned", AssignedDetails(newAssignee))>>
            ELSE <<Activity(id, userID, "unassigned", <<"Removed assignee">>)>>
       ELSE <<>>

\* the assignee diff of updateTask
AssigneeActs(id, userID, oldTask, newTask) ==
    LET newAssignee == Deref(newTask.AssigneeID)
        oldAssignee == Deref(oldTask.assignee_id)
    IN IF newAssignee # oldAssignee
       THEN IF newAssignee # ""
            THEN <<Activity(id, userID, "assigned", AssignedDetails(newAssignee))>>
            ELSE <<Activity(id, userID, "unassigned", <<"Removed assignee">>)>>
       ELSE <<>>

\* DescriptionActs comparing the titles
DescriptionActs_Title(id, userID, oldTask, newTask) ==
    IF newTask.Title # oldTask.title
    THEN <<Activity(id, userID, "updated", <<"Updated task description">>)>>
    ELSE <<>>

\* DescriptionActs testing the new description against "" and not the old one
DescriptionActs_NonEmpty(id, userID, oldTask, newTask) ==
    IF newTask.Description # ""
    THEN <<Activity(id, userID, "updated", <<"Updated task description">>)>>
    ELSE <<>>

\* if newTask.Description != oldTask.Description { go logActivity(..., "updated", ...) }
DescriptionActs(id, userID, oldTask, newTask) ==
    IF newTask.Description # oldTask.description
    THEN <<Activity(id, userID, "updated", <<"Updated task description">>)>>
    ELSE <<>>

\* Emitted with an 'updated' activity for a changed title as well
Emitted_TitleToo(id, oldTask, newTask) ==
    LET userID == UserIdOf(newTask)
    IN MovedActs(id, userID, oldTask, newTask)
       \o AssigneeActs(id, userID, oldTask, newTask)
       \o DescriptionActs(id, userID, oldTask, newTask)
       \o DescriptionActs_Title(id, userID, oldTask, newTask)

\* the go logActivity(...) statements of updateTask, in program order
Emitted(id, oldTask, newTask) ==
    LET userID == UserIdOf(newTask)
    IN MovedActs(id, userID, oldTask, newTask)
       \o AssigneeActs(id, userID, oldTask, newTask)
       \o DescriptionActs(id, userID, oldTask, newTask)

\* the goroutines a call starts: call number, index in program order, insert
Goroutines(call, acts) ==
    {[call |-> call, k |-> k, act |-> acts[k]] : k \in 1..Len(acts)}

\* the call of a handler: <<"create", task id>> or <<"update", number of the update>>
CallOf(op, n) == <<op, n>>

\* t.Title + " " + t.Description
TextOf(t) == <<t.Title, " ", t.Description>>

\* go updateEmbedding(id, text)
IndexingJob(call, id, t) == [table |-> "tasks", call |-> call, id |-> id, text |-> TextOf(t)]

\* a broadcastUpdate goroutine: not yet at the Lock, no connection visited
NotStarted == [pc |-> "start", todo |-> {}, ranged |-> {}, failed |-> {}]
\* a handler that returns without its go broadcastUpdate("UPDATE")
GoBroadcast_Omitted(call) == bcasts

\* a handler that calls broadcastUpdate("UPDATE") and returns after it
GoBroadcast_Inline(call) ==
    [c \in DOMAIN bcasts \cup {call} |->
        IF c = call THEN [NotStarted EXCEPT !.pc = "done"] ELSE bcasts[c]]

\* go broadcastUpdate("UPDATE")
GoBroadcast(call) == [c \in DOMAIN bcasts \cup {call} |-> IF c = call THEN NotStarted ELSE bcasts[c]]

\* column embedding: NULL, or the vector generateEmbedding(text) returns when
\* a provider answers
Null == <<"null", <<>>>>
VectorOf(text) == <<"vec", text>>

\* what the process finds in its environment: generateEmbedding reads
\* GEMINI_API_KEY on every call, initAI builds openaiClient when
\* OPENAI_API_KEY is set
Envs == [GEMINI_API_KEY : {"", "k"}, OPENAI_API_KEY : {"", "k"}]
Configured == [GEMINI_API_KEY |-> "k", OPENAI_API_KEY |-> ""]

\* what one http.Post to the provider comes back with: an error of the
\* transport, or a response with a status and a body
Answers == {"transport error", "200", "200 undecodable", "404", "500"}

PrimaryModel == "text-embedding-004"
FallbackModel == "gemini-embedding-001"

\* one http.Post: the model posted to and what came back
Post(model, a) == <<model, a>>

\* return nil, err  (calls: the posts made, in order)
Failure(e, calls) == [vec |-> Null, err |-> e, calls |-> calls]

\* json.NewDecoder(resp.Body).Decode(&result); return result.Embedding.Values, nil
Decode(a, text, calls) ==
    IF a = "200" THEN [vec |-> VectorOf(text), err |-> "", calls |-> calls]
    ELSE Failure("decode error", calls)

\* what follows a post that was answered with a response: the status check
\* at the end of the non-200 branch and the decoding
Respond(a, text, calls) ==
    IF a \in {"200", "200 undecodable"} THEN Decode(a, text, calls)
    ELSE Failure("gemini api error", calls)

\* generateEmbedding with the fallback model posted to on every non-200
\* answer of the primary model
generateEmbedding_FallbackOnAnyError(env, a1, a2, text) ==
    IF env.GEMINI_API_KEY = "" THEN Failure("no AI provider configured", <<>>)
    ELSE IF a1 = "transport error"
         THEN Failure("transport error", <<Post(PrimaryModel, a1)>>)
         ELSE IF a1 \in {"404", "500"}
              THEN IF a2 = "transport error"
                   THEN Failure("transport error",
                                <<Post(PrimaryModel, a1), Post(FallbackModel, a2)>>)
                   ELSE Respond(a2, text, <<Post(PrimaryModel, a1), Post(FallbackModel, a2)>>)
              ELSE Respond(a1, text, <<Post(PrimaryModel, a1)>>)

\* generateEmbedding(text), given the environment and the answers the
\* provider gives to the first and to the second http.Post
generateEmbedding(env, a1, a2, text) ==
    IF env.GEMINI_API_KEY = "" THEN Failure("no AI provider configured", <<>>)
    ELSE IF a1 = "transport error"
         THEN Failure("transport error", <<Post(PrimaryModel, a1)>>)
         ELSE IF a1 = "404"
              THEN IF a2 = "transport error"
                   THEN Failure("transport error",
                                <<Post(PrimaryModel, a1), Post(FallbackModel, a2)>>)
                   ELSE Respond(a2, text, <<Post(PrimaryModel, a1), Post(FallbackModel, a2)>>)
              ELSE Respond(a1, text, <<Post(PrimaryModel, a1)>>)

\* the environments, answers and outcomes of the database write one call of
\* generateEmbedding and the write after it can meet; a key that is never
\* read, an answer that is never asked for and a write that is never
\* attempted are left fixed
ProviderRuns ==
    {x \in [env : Envs, a1 : Answers, a2 : Answers, dbOK : BOOLEAN] :
        /\ x.env.GEMINI_API_KEY # "" => x.env.OPENAI_API_KEY = ""
        /\ x.env.GEMINI_API_KEY = "" => x.a1 = "200"
        /\ (x.env.GEMINI_API_KEY = "" \/ x.a1 # "404") => x.a2 = "200"
        /\ generateEmbedding(x.env, x.a1, x.a2, <<>>).err # "" => x.dbOK}

\* a goroutine of indexing that has run: what it was started with, the
\* environment and the column value it found, what generateEmbedding
\* returned to it, and the kind of line it logged ("" when the vector was
\* written)
JobDone(j, env, before, r, dbOK) ==
    [job |-> j, env |-> env, before |-> before, result |-> r,
     logged |-> IF r.err # "" THEN "Emb err" ELSE IF dbOK THEN "" ELSE "Db emb err"]

\* holders of clientsMu
Free == <<"free", "", 0>>
Handler(c) == <<"ws", c, 0>>
Broadcaster(b) == <<"broadcast", b[1], b[2]>>

\* request/response record: the operation, its number among the updates, the
\* task id and body of the request, the tasks table as the handler found it,
\* the response status and body, and whether the request repeats the
\* previous one (same task id, same body, nothing served in between)
\* for a search also: the provider calls the handler made, whether it ran
\* its SELECT, and the text it sent with an error status
\* for a handler that answers with a list also: what c.JSON wrote for it
\* ("null", "[]" or "[...]")
NoCall ==
    [op |-> "none", call |-> 0, id |-> 0, P |-> <<>>, before |-> <<>>, body |-> <<>>,
     status |-> 0, repeat |-> FALSE, calls |-> <<>>, queried |-> FALSE, err |-> "",
     json |-> ""]

\* strings of the adapter (the credential, the Authorization header):
\* sequences of pieces. process.env.MCP_API_KEY is undefined, empty, or a
\* credential
Keys == {Absent, Some(<<>>), Some(<<"k">>)}
ConfiguredKey == Some(<<"k">>)

\* a request before the middleware: no status, no handler run
AdapterCall(r) ==
    [route |-> r.route, authorization |-> r.authorization, sid |-> r.sid, rpc |-> r.rpc,
     status |-> 0, served |-> FALSE, known |-> FALSE, created |-> 0, forwarded |-> FALSE]
NoRequest == AdapterCall([route |-> "none", authorization |-> Absent, sid |-> 0, rpc |-> "none"])

\* the adapter after app.listen: the credential it read at load, the keys
\* of the maps streamableTransports and sseTransports, the streamable
\* transports it has created (session id, closed or not, how far the
\* initialize request that created it has come), the number of SSE
\* transports created, and the last request with its answer
AdapterStarted(key) ==
    [MCP_API_KEY |-> key, streamableTransports |-> {}, sseTransports |-> {},
     transports |-> <<>>, sse |-> 0, last |-> NoRequest]

\* the dispatcher before its first pollTasks(): no poll cycle, no session
\* (cycles: the calls of pollTasks, each with its place in the code and its
\* local variables; sessions: the agent sessions spawned)
DispatcherStarted == [cycles |-> <<>>, sessions |-> <<>>]

\* ------------------------------------------------------------------- Init
\* initDB inserts the board 'Main Project' when it finds none and drops the
\* error of that INSERT, so the server starts with the board or without any
InitCore ==
    /\ boards \in {{"b1"}, {}}
    /\ tasks = <<>>
    /\ nextId = 1
    /\ pending = {}
    /\ activities = <<>>
    /\ last = NoCall
    /\ nUpdates = 0
    /\ embedding = <<>>
    /\ indexing = {}
    /\ finished = {}
    /\ docs = <<>>
    /\ nextDocId = 1
    /\ bcasts = <<>>
    /\ clients = {}
    /\ clientsMu = Free
    /\ conns = [c \in Conns |-> [pc |-> "none", alive |-> FALSE]]
    /\ tokens = [c \in Conns |-> <<>>]
    /\ boardMembers = boards \X Members
    /\ inflight = {}

\* the server, the adapter with its credential and the dispatcher
Init ==
    /\ InitCore
    /\ mcp = AdapterStarted(ConfiguredKey)
    /\ disp = DispatcherStarted

\* the same with any value of MCP_API_KEY in the adapter's environment
InitAdapter ==
    /\ InitCore
    /\ boards = {"b1"}
    /\ mcp \in {AdapterStarted(key) : key \in Keys}
    /\ disp = DispatcherStarted

\* ---------------------------------------------------------------- actions
\* POST /api/boards: INSERT INTO boards ... RETURNING id (gen_random_uuid),
\* then the INSERT of the owner 'mirza' INTO board_members
\* the generated ids are fresh and interchangeable: the first board created
\* is called b1
createBoard(b) ==
    /\ b \notin boards
    /\ b = "b1" \/ "b1" \in boards
    /\ boards' = boards \cup {b}
    /\ boardMembers' = boardMembers \cup {<<b, "mirza">>}
    /\ last' = [NoCall EXCEPT !.op = "createBoard", !.status = 200]
    /\ UNCHANGED <<tasks, nextId, pending, activities, nUpdates, embedding, indexing, bcasts>>
    /\ UNCHANGED <<finished, docVars>>
    /\ UNCHANGED notifierVars
    /\ UNCHANGED outerVars

\* DefaultList leaving an empty list_id as it is
DefaultList_Keep(t) == t

\* if t.ListID == "" { t.ListID = "todo" }
DefaultList(t) == IF t.ListID = "" THEN [t EXCEPT !.ListID = "todo"] ELSE t

\* POST /api/tasks
createTask(P) ==
    /\ nextId <= MaxTasks
    /\ LET t == BodyParser(P)
           call == [NoCall EXCEPT !.op = "create", !.P = P, !.before = tasks]
       IN \E defaultID \in (IF boards = {} THEN {""} ELSE boards) :
          LET withBoard == IF t.BoardID = "" THEN [t EXCEPT !.BoardID = defaultID] ELSE t
              newTask == DefaultList(withBoard)
          IN IF t.BoardID = "" /\ defaultID = ""
             THEN /\ last' = [call EXCEPT !.status = 500]
                  /\ UNCHANGED <<tasks, nextId, embedding, indexing, bcasts>>
             ELSE IF t.Title = ""
             THEN /\ last' = [call EXCEPT !.status = 400]
                  /\ UNCHANGED <<tasks, nextId, embedding, indexing, bcasts>>
             ELSE IF ~ForeignKeysHold(newTask)
             THEN /\ last' = [call EXCEPT !.status = 500]
                  /\ nextId' = nextId + 1
                  /\ UNCHANGED <<tasks, embedding, indexing, bcasts>>
             ELSE /\ tasks' = [i \in DOMAIN tasks \cup {nextId} |->
                                  IF i = nextId THEN RowOf(newTask) ELSE tasks[i]]
                  /\ embedding' = [i \in DOMAIN embedding \cup {nextId} |->
                                      IF i = nextId THEN Null ELSE embedding[i]]
                  /\ nextId' = nextId + 1
                  /\ indexing' = indexing \cup {IndexingJob(CallOf("create", nextId), nextId, newTask)}
                  /\ bcasts' = GoBroadcast(CallOf("create", nextId))
                  /\ last' = [call EXCEPT !.status = 200, !.id = nextId, !.body = RowOf(newTask)]
    /\ UNCHANGED <<boards, pending, activities, nUpdates>>
    /\ UNCHANGED <<finished, docVars>>
    /\ UNCHANGED notifierVars
    /\ UNCHANGED <<memberVars, outerVars>>

\* TaskNotFound answering 404 and still notifying the subscribers
TaskNotFound_Broadcasts(call) ==
    /\ last' = [call EXCEPT !.status = 404]
    /\ bcasts' = GoBroadcast(CallOf("update", call.call))
    /\ UNCHANGED <<tasks, pending, indexing>>

\* the SELECT of updateTask found no row: return c.Status(404)
TaskNotFound(call) ==
    /\ last' = [call EXCEPT !.status = 404]
    /\ UNCHANGED <<tasks, pending, indexing, bcasts>>

\* PUT /api/tasks/:id
updateTaskHandler(id, P) ==
    /\ nUpdates' = nUpdates + 1
    /\ LET call == [NoCall EXCEPT !.op = "update", !.call = nUpdates + 1, !.id = id, !.P = P,
                                  !.before = tasks,
                                  !.repeat = (last.op = "update" /\ last.id = id /\ last.P = P)]
       IN IF id \notin DOMAIN tasks
          THEN TaskNotFound(call)
          ELSE LET oldTask == tasks[id]
                   newTask == MergeTask(oldTask, BodyParser(P))
                   acts == Emitted(id, oldTask, newTask)
               IN IF ~ForeignKeysHold(newTask)
                  THEN /\ last' = [call EXCEPT !.status = 500]
                       /\ UNCHANGED <<tasks, pending, indexing, bcasts>>
                  ELSE /\ tasks' = [tasks EXCEPT ![id] = RowOf(newTask)]
                       /\ pending' = pending \cup Goroutines(nUpdates + 1, acts)
                       /\ indexing' = indexing
                              \cup {IndexingJob(CallOf("update", nUpdates + 1), id, newTask)}
                       /\ bcasts' = GoBroadcast(CallOf("update", nUpdates + 1))
                       /\ last' = [call EXCEPT !.status = 200, !.body = RowOf(newTask)]
    /\ UNCHANGED <<boards, nextId, activities, embedding>>
    /\ UNCHANGED <<finished, docVars>>
    /\ UNCHANGED notifierVars
    /\ UNCHANGED <<memberVars, inflight, mcp>>

\* PUT /api/tasks/:id from any client but the dispatcher
updateTask(id, P) ==
    /\ nUpdates < MaxUpdates
    /\ updateTaskHandler(id, P)
    /\ UNCHANGED disp

\* a started logActivity goroutine runs its INSERT INTO activities; the
\* result of db.Exec is dropped, so a failed insert ends the goroutine
\* silently; fk_act_task fails the insert when the task row is gone
logActivity(g) ==
    /\ g \in pending
    /\ \E inserted \in (IF g.act.task_id \in DOMAIN tasks THEN BOOLEAN ELSE {FALSE}) :
          activities' = IF inserted
                        THEN Append(activities, [call |-> g.call, k |-> g.k, act |-> g.act])
                        ELSE activities
    /\ pending' = pending \ {g}
    /\ UNCHANGED <<boards, tasks, nextId, last, nUpdates, embedding, indexing, bcasts>>
    /\ UNCHANGED <<finished, docVars>>
    /\ UNCHANGED notifierVars
    /\ UNCHANGED <<memberVars, outerVars>>

\* updateEmbedding whose failure fails the call that started it
updateEmbedding_FailsCall(j, env, a1, a2, dbOK) ==
    /\ j \in indexing /\ j.table = "tasks"
    /\ indexing' = indexing \ {j}
    /\ LET r == generateEmbedding(env, a1, a2, j.text)
       IN /\ finished' = finished \cup {JobDone(j, env, embedding[j.id], r, dbOK)}
          /\ IF r.err = "" /\ dbOK
             THEN /\ embedding' = [embedding EXCEPT ![j.id] = r.vec]
                  /\ UNCHANGED <<tasks, last>>
             ELSE /\ last' = [last EXCEPT !.status = 500]
                  /\ tasks' = IF last.op = "update" THEN last.before ELSE tasks
                  /\ UNCHANGED embedding
    /\ UNCHANGED <<boards, nextId, pending, activities, nUpdates, bcasts, docVars>>
    /\ UNCHANGED notifierVars
    /\ UNCHANGED <<memberVars, outerVars>>

\* a started updateEmbedding goroutine: generateEmbedding fails and the
\* goroutine logs "Emb err" and returns; or the UPDATE of the embedding
\* column fails and it logs "Db emb err"; or the vector is stored
updateEmbedding(j, env, a1, a2, dbOK) ==
    /\ j \in indexing /\ j.table = "tasks"
    /\ indexing' = indexing \ {j}
    /\ LET r == generateEmbedding(env, a1, a2, j.text)
       IN /\ finished' = finished \cup {JobDone(j, env, embedding[j.id], r, dbOK)}
          /\ embedding' = IF r.err = "" /\ dbOK
                          THEN [embedding EXCEPT ![j.id] = r.vec]
                          ELSE embedding
    /\ UNCHANGED <<boards, tasks, nextId, pending, activities, last, nUpdates, bcasts, docVars>>
    /\ UNCHANGED notifierVars
    /\ UNCHANGED <<memberVars, outerVars>>

\* d.Title + " " + d.Content
DocTextOf(d) == <<d.title, " ", d.content>>

\* go updateDocEmbedding(id, text)
DocIndexingJob(call, id, d) ==
    [table |-> "documents", call |-> call, id |-> id, text |-> DocTextOf(d)]

\* the indexing goroutines started so far
JobCount == Cardinality(indexing) + Cardinality(finished)

\* the JSON of a Document (timestamps left out)
DocJSON(i, d) == [id |-> i, board_id |-> d.board_id, title |-> d.title, content |-> d.content]

\* table documents with row i written as d
WithDoc(i, d) == [k \in DOMAIN docs \cup {i} |-> IF k = i THEN d ELSE docs[k]]

\* POST /api/boards/:id/docs
createDoc(boardID, D) ==
    /\ nextDocId <= MaxDocs
    /\ LET call == [NoCall EXCEPT !.op = "createDoc", !.P = D, !.before = docs]
           d == [board_id |-> boardID, title |-> D.title, content |-> D.content,
                 embedding |-> Null]
       IN IF D.title = ""
          THEN /\ last' = [call EXCEPT !.status = 400, !.err = "Title is required"]
               /\ UNCHANGED <<docVars, indexing>>
          ELSE IF boardID \notin boards
               THEN /\ last' = [call EXCEPT !.status = 500, !.err = "fk_doc_board"]
                    /\ UNCHANGED <<docVars, indexing>>
               ELSE /\ docs' = WithDoc(nextDocId, d)
                    /\ nextDocId' = nextDocId + 1
                    /\ indexing' = indexing
                          \cup {DocIndexingJob(CallOf("createDoc", JobCount + 1), nextDocId, d)}
                    /\ last' = [call EXCEPT !.status = 200, !.id = nextDocId,
                                            !.body = DocJSON(nextDocId, d)]
    /\ UNCHANGED <<boards, tasks, nextId, pending, activities, nUpdates, embedding, finished, bcasts>>
    /\ UNCHANGED notifierVars
    /\ UNCHANGED <<memberVars, outerVars>>

\* PUT /api/docs/:id
updateDoc(id, D) ==
    /\ LET call == [NoCall EXCEPT !.op = "updateDoc", !.id = id, !.P = D, !.before = docs]
       IN IF id \notin DOMAIN docs
          THEN /\ last' = [call EXCEPT !.status = 404, !.err = "Document not found"]
               /\ UNCHANGED <<docs, indexing>>
          ELSE LET existing == docs[id]
                   d == [existing EXCEPT
                           !.title = IF D.title # "" THEN D.title ELSE existing.title,
                           !.content = IF D.content # "" THEN D.content ELSE existing.content]
               IN /\ docs' = WithDoc(id, d)
                  /\ indexing' = indexing
                        \cup {DocIndexingJob(CallOf("updateDoc", JobCount + 1), id, d)}
                  /\ last' = [call EXCEPT !.status = 200, !.body = DocJSON(id, d)]
    /\ UNCHANGED <<boards, tasks, nextId, pending, activities, nUpdates, embedding, finished,
                   nextDocId, bcasts>>
    /\ UNCHANGED notifierVars
    /\ UNCHANGED <<memberVars, outerVars>>

\* DELETE /api/docs/:id
deleteDoc(id) ==
    /\ LET call == [NoCall EXCEPT !.op = "deleteDoc", !.id = id, !.before = docs]
       IN IF id \notin DOMAIN docs
          THEN /\ last' = [call EXCEPT !.status = 404, !.err = "Document not found"]
               /\ UNCHANGED docs
          ELSE /\ docs' = [k \in DOMAIN docs \ {id} |-> docs[k]]
               /\ last' = [call EXCEPT !.status = 200]
    /\ UNCHANGED <<boards, tasks, nextId, pending, activities, nUpdates, embedding, indexing,
                   finished, nextDocId, bcasts>>
    /\ UNCHANGED notifierVars
    /\ UNCHANGED <<memberVars, outerVars>>

\* column embedding of the documents row a goroutine is about: NULL when the
\* row has been deleted meanwhile (the UPDATE then changes no row)
DocEmbedding(id) == IF id \in DOMAIN docs THEN docs[id].embedding ELSE Null

\* updateDocEmbedding that writes NULL when it has no vector to write
updateDocEmbedding_ClearsOnError(j, env, a1, a2, dbOK) ==
    /\ j \in indexing /\ j.table = "documents"
    /\ indexing' = indexing \ {j}
    /\ LET r == generateEmbedding(env, a1, a2, j.text)
       IN /\ finished' = finished \cup {JobDone(j, env, DocEmbedding(j.id), r, dbOK)}
          /\ docs' = IF j.id \in DOMAIN docs
                     THEN [docs EXCEPT ![j.id].embedding = IF dbOK THEN r.vec ELSE Null]
                     ELSE docs
    /\ UNCHANGED <<boards, tasks, nextId, pending, activities, last, nUpdates, embedding,
                   nextDocId, bcasts>>
    /\ UNCHANGED notifierVars
    /\ UNCHANGED <<memberVars, outerVars>>

\* a started updateDocEmbedding goroutine: generateEmbedding fails and the
\* goroutine logs "Doc emb err" and returns; or the UPDATE of the embedding
\* column fails and it logs "Doc db emb err"; or the vector is stored
updateDocEmbedding(j, env, a1, a2, dbOK) ==
    /\ j \in indexing /\ j.table = "documents"
    /\ indexing' = indexing \ {j}
    /\ LET r == generateEmbedding(env, a1, a2, j.text)
       IN /\ finished' = finished \cup {JobDone(j, env, DocEmbedding(j.id), r, dbOK)}
          /\ docs' = IF r.err = "" /\ dbOK /\ j.id \in DOMAIN docs
                     THEN [docs EXCEPT ![j.id].embedding = r.vec]
                     ELSE docs
    /\ UNCHANGED <<boards, tasks, nextId, pending, activities, last, nUpdates, embedding,
                   nextDocId, bcasts>>
    /\ UNCHANGED notifierVars
    /\ UNCHANGED <<memberVars, outerVars>>

\* clientsMu.Lock() entered without waiting for the holder
Lock_NoWait(who) == clientsMu' = who

\* clientsMu.Lock() / clientsMu.Unlock()
Lock(who) == clientsMu = Free /\ clientsMu' = who
Unlock(who) == clientsMu = who /\ clientsMu' = Free

\* GET /ws upgraded: the handler of connection c starts
wsAccept(c) ==
    /\ conns[c].pc = "none"
    /\ conns' = [conns EXCEPT ![c] = [pc |-> "lock", alive |-> TRUE]]
    /\ UNCHANGED <<clients, clientsMu, tokens, bcasts>>
    /\ UNCHANGED storeVars

\* clientsMu.Lock() of the handler
wsLock(c) ==
    /\ conns[c].pc = "lock"
    /\ Lock(Handler(c))
    /\ conns' = [conns EXCEPT ![c].pc = "register"]
    /\ UNCHANGED <<clients, tokens, bcasts>>
    /\ UNCHANGED storeVars

\* clients[c] = true; clientsMu.Unlock(); the handler enters its read loop
wsRegister(c) ==
    /\ conns[c].pc = "register"
    /\ clients' = clients \cup {c}
    /\ Unlock(Handler(c))
    /\ conns' = [conns EXCEPT ![c].pc = "read"]
    /\ UNCHANGED <<tokens, bcasts>>
    /\ UNCHANGED storeVars

\* the peer of connection c goes away
peerCloses(c) ==
    /\ conns[c].pc # "none" /\ conns[c].alive
    /\ conns' = [conns EXCEPT ![c].alive = FALSE]
    /\ UNCHANGED <<clients, clientsMu, tokens, bcasts>>
    /\ UNCHANGED storeVars

\* c.ReadMessage() returns an error: break, the deferred function starts
wsReadError(c) ==
    /\ conns[c].pc = "read" /\ ~conns[c].alive
    /\ conns' = [conns EXCEPT ![c].pc = "deferred"]
    /\ UNCHANGED <<clients, clientsMu, tokens, bcasts>>
    /\ UNCHANGED storeVars

\* clientsMu.Lock() of the deferred function
wsDeferredLock(c) ==
    /\ conns[c].pc = "deferred"
    /\ Lock(Handler(c))
    /\ conns' = [conns EXCEPT ![c].pc = "unregister"]
    /\ UNCHANGED <<clients, tokens, bcasts>>
    /\ UNCHANGED storeVars

\* wsUnregister without its delete(clients, c)
wsUnregister_NoDelete(c) ==
    /\ conns[c].pc = "unregister"
    /\ Unlock(Handler(c))
    /\ conns' = [conns EXCEPT ![c].pc = "closed"]
    /\ UNCHANGED <<clients, tokens, bcasts>>
    /\ UNCHANGED storeVars

\* delete(clients, c); clientsMu.Unlock(); c.Close()
wsUnregister(c) ==
    /\ conns[c].pc = "unregister"
    /\ clients' = clients \ {c}
    /\ Unlock(Handler(c))
    /\ conns' = [conns EXCEPT ![c].pc = "closed"]
    /\ UNCHANGED <<tokens, bcasts>>
    /\ UNCHANGED storeVars

\* broadcastUpdate: clientsMu.Lock(); the range over clients starts
bLock(b) ==
    /\ b \in DOMAIN bcasts /\ bcasts[b].pc = "start"
    /\ Lock(Broadcaster(b))
    /\ bcasts' = [bcasts EXCEPT ![b] = [pc |-> "range", todo |-> clients, ranged |-> clients,
                                       failed |-> {}]]
    /\ UNCHANGED <<clients, conns, tokens>>
    /\ UNCHANGED storeVars

\* bWrite leaving the range at the first write error
bWrite_Aborts(b, ch) ==
    /\ b \in DOMAIN bcasts /\ bcasts[b].pc = "range" /\ ch \in bcasts[b].todo
    /\ \E err \in (IF conns[ch].alive THEN {FALSE} ELSE BOOLEAN) :
          IF err
          THEN /\ clients' = clients \ {ch}
               /\ bcasts' = [bcasts EXCEPT ![b].todo = {}, ![b].failed = @ \cup {ch}]
               /\ UNCHANGED tokens
          ELSE /\ tokens' = [tokens EXCEPT ![ch] = Append(@, b)]
               /\ bcasts' = [bcasts EXCEPT ![b].todo = @ \ {ch}]
               /\ UNCHANGED clients
    /\ UNCHANGED <<clientsMu, conns>>
    /\ UNCHANGED storeVars

\* one iteration of the range: client.WriteMessage, and on an error
\* client.Close() and delete(clients, client). A write to a connection whose
\* peer is there succeeds; a write to one whose peer is gone fails or is
\* still accepted by the transport.
bWrite(b, ch) ==
    /\ b \in DOMAIN bcasts /\ bcasts[b].pc = "range" /\ ch \in bcasts[b].todo
    /\ \E err \in (IF conns[ch].alive THEN {FALSE} ELSE BOOLEAN) :
          IF err
          THEN /\ clients' = clients \ {ch}
               /\ bcasts' = [bcasts EXCEPT ![b].todo = @ \ {ch}, ![b].failed = @ \cup {ch}]
               /\ UNCHANGED tokens
          ELSE /\ tokens' = [tokens EXCEPT ![ch] = Append(@, b)]
               /\ bcasts' = [bcasts EXCEPT ![b].todo = @ \ {ch}]
               /\ UNCHANGED clients
    /\ UNCHANGED <<clientsMu, conns>>
    /\ UNCHANGED storeVars

\* the range is over: the deferred clientsMu.Unlock()
bUnlock(b) ==
    /\ b \in DOMAIN bcasts /\ bcasts[b].pc = "range" /\ bcasts[b].todo = {}
    /\ Unlock(Broadcaster(b))
    /\ bcasts' = [bcasts EXCEPT ![b].pc = "done"]
    /\ UNCHANGED <<clients, conns, tokens>>
    /\ UNCHANGED storeVars

\* SELECT ... FROM tasks WHERE board_id=$1
Selected(boardID) == {i \in DOMAIN tasks : tasks[i].board_id = boardID}

\* OrderBy with ORDER BY position DESC
RECURSIVE OrderBy_Desc(_)
OrderBy_Desc(ids) ==
    IF ids = {}
    THEN {<<>>}
    ELSE UNION {{<<m>> \o rest : rest \in OrderBy_Desc(ids \ {m})} :
                   m \in {i \in ids : \A j \in ids : tasks[i].position >= tasks[j].position}}

\* ORDER BY position ASC: the orders in which the database may return the
\* selected rows, a row of least position first; rows of equal position come
\* in any order
RECURSIVE OrderBy(_)
OrderBy(ids) ==
    IF ids = {}
    THEN {<<>>}
    ELSE UNION {{<<m>> \o rest : rest \in OrderBy(ids \ {m})} :
                   m \in {i \in ids : \A j \in ids : tasks[i].position <= tasks[j].position}}

\* rows.Scan into a Task and its JSON
TaskJSON(i) ==
    [id |-> i, board_id |-> tasks[i].board_id, title |-> tasks[i].title,
     description |-> tasks[i].description, list_id |-> tasks[i].list_id,
     position |-> tasks[i].position, assignee_id |-> tasks[i].assignee_id]

\* GET /api/boards/:id/tasks: the bodies the handler may answer with
getBoardTasks(boardID) ==
    {[k \in 1..Len(ids) |-> TaskJSON(ids[k])] : ids \in OrderBy(Selected(boardID))}

\* ---------------------------------------------------------- list handlers
\* a Go slice: the nil slice, or a slice with its elements
NilSlice == <<"nil", <<>>>>
Slice(xs) == <<"slice", xs>>

\* var xs []T; for rows.Next() { ...; xs = append(xs, x) }
Collect(rows) == IF rows = <<>> THEN NilSlice ELSE Slice(rows)

\* a list handler without its nil check
OrEmpty_Omitted(xs) == xs

\* if xs == nil { xs = []T{} }
OrEmpty(xs) == IF xs = NilSlice THEN Slice(<<>>) ELSE xs

\* c.JSON(xs): encoding/json writes null for the nil slice and an array for
\* every other slice
JSONOf(xs) == IF xs = NilSlice THEN "null" ELSE IF xs[2] = <<>> THEN "[]" ELSE "[...]"

\* what a list handler writes for the rows its SELECT returned
Listing(rows) == JSONOf(OrEmpty(Collect(rows)))

\* -------------------------------------------------------- semantic search
\* the vector the provider returns for a text, reduced to one coordinate:
\* the sum of the weights of the pieces of the text
Weight(piece) == CASE piece = "B" -> 2 [] piece = "c" -> 1 [] OTHER -> 0
RECURSIVE Coord(_)
Coord(text) == IF text = <<>> THEN 0 ELSE Weight(Head(text)) + Coord(Tail(text))

\* embedding <=> $1 for two vectors
Distance(v, w) ==
    LET d == Coord(v[2]) - Coord(w[2]) IN IF d < 0 THEN 0 - d ELSE d

\* LIMIT 5
Limit == 5

\* NotBehind for ORDER BY embedding <=> $1 DESC
NotBehind_Descending(emb, qv, i, j) ==
    \/ emb[i] = Null
    \/ emb[j] # Null /\ Distance(emb[i], qv) >= Distance(emb[j], qv)

\* ORDER BY embedding <=> $1: row i may come before row j (ascending
\* distance; a NULL embedding has a NULL distance, which sorts last)
NotBehind(emb, qv, i, j) ==
    \/ emb[j] = Null
    \/ emb[i] # Null /\ Distance(emb[i], qv) <= Distance(emb[j], qv)

\* ORDER BY embedding <=> $1 LIMIT n over the rows ids: the results the
\* database may return (rows at equal distance come in any order)
RECURSIVE Nearest(_, _, _, _)
Nearest(ids, emb, qv, n) ==
    IF ids = {} \/ n = 0
    THEN {<<>>}
    ELSE UNION {{<<m>> \o rest : rest \in Nearest(ids \ {m}, emb, qv, n - 1)} :
                   m \in {i \in ids : \A j \in ids : NotBehind(emb, qv, i, j)}}

\* what a search reads of a table: board_id and embedding of every row
TaskRows == [i \in DOMAIN tasks |-> [board_id |-> tasks[i].board_id, embedding |-> embedding[i]]]
DocRows == [i \in DOMAIN docs |-> [board_id |-> docs[i].board_id, embedding |-> docs[i].embedding]]
EmbeddingOf(rows) == [i \in DOMAIN rows |-> rows[i].embedding]

\* GET /api/search?q=
searchTasks(q, env, a1, a2, dbOK) ==
    /\ LET call == [NoCall EXCEPT !.op = "searchTasks", !.P = <<q, "">>, !.before = TaskRows]
           r == generateEmbedding(env, a1, a2, <<q>>)
       IN IF q = ""
          THEN last' = [call EXCEPT !.status = 400, !.err = "Query required"]
          ELSE IF r.err # ""
               THEN last' = [call EXCEPT !.status = 500, !.err = r.err, !.calls = r.calls]
               ELSE IF ~dbOK
                    THEN last' = [call EXCEPT !.status = 500, !.err = "query error",
                                              !.calls = r.calls, !.queried = TRUE]
                    ELSE \E ids \in Nearest(DOMAIN tasks, embedding, r.vec, Limit) :
                            last' = [call EXCEPT !.status = 200, !.calls = r.calls,
                                                 !.queried = TRUE,
                                                 !.body = [k \in 1..Len(ids) |-> TaskJSON(ids[k])],
                                                 !.json = Listing([k \in 1..Len(ids) |->
                                                                     TaskJSON(ids[k])])]
    /\ UNCHANGED <<boards, tasks, nextId, pending, activities, nUpdates, embedding, indexing,
                   finished, docVars, bcasts>>
    /\ UNCHANGED notifierVars
    /\ UNCHANGED <<memberVars, outerVars>>

\* the WHERE clause of searchDocs without "embedding IS NOT NULL"
Eligible_WithNulls(boardID) ==
    {i \in DOMAIN docs : boardID = "" \/ docs[i].board_id = boardID}

\* WHERE board_id=$1 AND embedding IS NOT NULL, or WHERE embedding IS NOT
\* NULL when the request names no board
Eligible(boardID) ==
    {i \in DOMAIN docs :
        /\ docs[i].embedding # Null
        /\ boardID = "" \/ docs[i].board_id = boardID}

\* searchDocs that embeds the query before it looks at it
searchDocs_EmbedsFirst(q, boardID, env, a1, a2, dbOK) ==
    /\ LET call == [NoCall EXCEPT !.op = "searchDocs", !.P = <<q, boardID>>, !.before = DocRows]
           r == generateEmbedding(env, a1, a2, <<q>>)
       IN IF r.err # ""
          THEN last' = [call EXCEPT !.status = 500, !.err = r.err, !.calls = r.calls]
          ELSE IF q = ""
               THEN last' = [call EXCEPT !.status = 400, !.err = "Query required",
                                         !.calls = r.calls]
               ELSE IF ~dbOK
                    THEN last' = [call EXCEPT !.status = 500, !.err = "query error",
                                              !.calls = r.calls, !.queried = TRUE]
                    ELSE \E ids \in Nearest(Eligible(boardID), EmbeddingOf(DocRows), r.vec, Limit) :
                            last' = [call EXCEPT !.status = 200, !.calls = r.calls,
                                                 !.queried = TRUE,
                                                 !.body = [k \in 1..Len(ids) |->
                                                              DocJSON(ids[k], docs[ids[k]])],
                                                 !.json = Listing([k \in 1..Len(ids) |->
                                                              DocJSON(ids[k], docs[ids[k]])])]
    /\ UNCHANGED <<boards, tasks, nextId, pending, activities, nUpdates, embedding, indexing,
                   finished, docVars, bcasts>>
    /\ UNCHANGED notifierVars
    /\ UNCHANGED <<memberVars, outerVars>>

\* GET /api/docs/search?q=&board_id=
searchDocs(q, boardID, env, a1, a2, dbOK) ==
    /\ LET call == [NoCall EXCEPT !.op = "searchDocs", !.P = <<q, boardID>>, !.before = DocRows]
           r == generateEmbedding(env, a1, a2, <<q>>)
       IN IF q = ""
          THEN last' = [call EXCEPT !.status = 400, !.err = "Query required"]
          ELSE IF r.err # ""
               THEN last' = [call EXCEPT !.status = 500, !.err = r.err, !.calls = r.calls]
               ELSE IF ~dbOK
                    THEN last' = [call EXCEPT !.status = 500, !.err = "query error",
                                              !.calls = r.calls, !.queried = TRUE]
                    ELSE \E ids \in Nearest(Eligible(boardID), EmbeddingOf(DocRows), r.vec, Limit) :
                            last' = [call EXCEPT !.status = 200, !.calls = r.calls,
                                                 !.queried = TRUE,
                                                 !.body = [k \in 1..Len(ids) |->
                                                              DocJSON(ids[k], docs[ids[k]])],
                                                 !.json = Listing([k \in 1..Len(ids) |->
                                                              DocJSON(ids[k], docs[ids[k]])])]
    /\ UNCHANGED <<boards, tasks, nextId, pending, activities, nUpdates, embedding, indexing,
                   finished, docVars, bcasts>>
    /\ UNCHANGED notifierVars
    /\ UNCHANGED <<memberVars, outerVars>>

\* ------------------------------------------------ members and board rows

\* POST /api/boards/:id/members: INSERT INTO board_members ... ON CONFLICT
\* DO NOTHING; fk_bm_board or fk_bm_member fails the INSERT
addBoardMember(boardID, memberID) ==
    /\ LET call == [NoCall EXCEPT !.op = "addBoardMember", !.P = <<boardID, memberID>>]
       IN IF boardID \notin boards \/ memberID \notin Members
          THEN /\ last' = [call EXCEPT !.status = 500, !.err = "fk_bm"]
               /\ UNCHANGED boardMembers
          ELSE /\ boardMembers' = boardMembers \cup {<<boardID, memberID>>}
               /\ last' = [call EXCEPT !.status = 200]
    /\ UNCHANGED <<boards, tasks, nextId, pending, activities, nUpdates, embedding, indexing,
                   finished, docVars, bcasts>>
    /\ UNCHANGED notifierVars
    /\ UNCHANGED outerVars

\* DELETE /api/boards/:id/members/:mid
removeBoardMember(boardID, memberID) ==
    /\ boardMembers' = boardMembers \ {<<boardID, memberID>>}
    /\ last' = [NoCall EXCEPT !.op = "removeBoardMember", !.P = <<boardID, memberID>>,
                              !.status = 200]
    /\ UNCHANGED <<boards, tasks, nextId, pending, activities, nUpdates, embedding, indexing,
                   finished, docVars, bcasts>>
    /\ UNCHANGED notifierVars
    /\ UNCHANGED outerVars

\* fk_board ... ON DELETE CASCADE without the cascade: the tasks stay
TasksOfBoard_NoCascade(b) == {}

\* the rows the ON DELETE CASCADE constraints remove with the row b of
\* boards: fk_board (tasks), fk_act_task (activities of those tasks),
\* fk_doc_board (documents), fk_bm_board (board_members)
TasksOfBoard(b) == {i \in DOMAIN tasks : tasks[i].board_id = b}
ActivitiesOfTasks(ids) == {k \in DOMAIN activities : activities[k].act.task_id \in ids}
DocsOfBoard(b) == {i \in DOMAIN docs : docs[i].board_id = b}
MembershipsOfBoard(b) == {r \in boardMembers : r[1] = b}

\* a sequence without the elements at the positions in gone
RECURSIVE Without(_, _)
Without(seq, gone) ==
    IF seq = <<>> THEN <<>>
    ELSE LET rest == Without(SubSeq(seq, 1, Len(seq) - 1), gone)
         IN IF Len(seq) \in gone THEN rest ELSE Append(rest, seq[Len(seq)])

\* the row b of boards is deleted (no route of the server does it; the
\* statement reaches the database from outside) and the constraints cascade
deleteBoard(b) ==
    /\ b \in boards
    /\ LET gone == TasksOfBoard(b)
       IN /\ boards' = boards \ {b}
          /\ tasks' = [i \in DOMAIN tasks \ gone |-> tasks[i]]
          /\ embedding' = [i \in DOMAIN embedding \ gone |-> embedding[i]]
          /\ activities' = Without(activities, ActivitiesOfTasks(gone))
          /\ docs' = [i \in DOMAIN docs \ DocsOfBoard(b) |-> docs[i]]
          /\ boardMembers' = boardMembers \ MembershipsOfBoard(b)
    /\ last' = [NoCall EXCEPT !.op = "deleteBoard", !.P = <<b>>, !.before = tasks,
                              !.status = 200]
    /\ UNCHANGED <<nextId, pending, nUpdates, indexing, finished, nextDocId, bcasts>>
    /\ UNCHANGED notifierVars
    /\ UNCHANGED outerVars


\* the orders in which a SELECT may return the rows S when the model holds
\* nothing its ORDER BY could use (or the statement has none)
RECURSIVE Orders(_)
Orders(S) ==
    IF S = {} THEN {<<>>}
    ELSE UNION {{<<x>> \o rest : rest \in Orders(S \ {x})} : x \in S}

\* a list handler answers 200 with the rows it scanned
Listed(op, P, rows) ==
    [NoCall EXCEPT !.op = op, !.P = P, !.status = 200, !.body = rows, !.json = Listing(rows)]

\* a handler that only reads answers with call
Answer(call) ==
    /\ last' = call
    /\ UNCHANGED <<boards, tasks, nextId, pending, activities, nUpdates, embedding, indexing,
                   finished, docVars, bcasts>>
    /\ UNCHANGED notifierVars
    /\ UNCHANGED <<memberVars, outerVars>>

\* GET /api/boards
getBoards ==
    \E ids \in Orders(boards) :
       Answer(Listed("getBoards", <<>>, [k \in 1..Len(ids) |-> [id |-> ids[k]]]))

\* GET /api/boards/:id/tasks as a request served
listTasks(boardID) ==
    \E rows \in getBoardTasks(boardID) : Answer(Listed("getBoardTasks", <<boardID>>, rows))

\* GET /api/members
getMembers ==
    \E ids \in Orders(Members) :
       Answer(Listed("getMembers", <<>>, [k \in 1..Len(ids) |-> [id |-> ids[k]]]))

\* GET /api/boards/:id/members: members m JOIN board_members bm WHERE
\* bm.board_id = $1
getBoardMembers(boardID) ==
    \E ids \in Orders({r[2] : r \in MembershipsOfBoard(boardID)}) :
       Answer(Listed("getBoardMembers", <<boardID>>, [k \in 1..Len(ids) |-> [id |-> ids[k]]]))

\* the rows of activities with task_id = $1, by their place in the table
ActivityRows(taskID) == {k \in DOMAIN activities : activities[k].act.task_id = taskID}

\* rows.Scan into an Activity and its JSON; created_at is the moment of the
\* INSERT, which grows with the place in the table
ActivityJSON(k) ==
    [id |-> k, task_id |-> activities[k].act.task_id, user_id |-> activities[k].act.user_id,
     action |-> activities[k].act.action, details |-> activities[k].act.details,
     created_at |-> k]

\* NewestFirst for ORDER BY created_at ASC
RECURSIVE NewestFirst_Ascending(_)
NewestFirst_Ascending(ks) ==
    IF ks = {} THEN <<>>
    ELSE LET m == CHOOSE k \in ks : \A j \in ks : k <= j
         IN <<m>> \o NewestFirst_Ascending(ks \ {m})

\* ORDER BY created_at DESC
RECURSIVE NewestFirst(_)
NewestFirst(ks) ==
    IF ks = {} THEN <<>>
    ELSE LET m == CHOOSE k \in ks : \A j \in ks : j <= k
         IN <<m>> \o NewestFirst(ks \ {m})

\* GET /api/tasks/:id/activities
getTaskActivities(taskID) ==
    LET ks == NewestFirst(ActivityRows(taskID))
    IN Answer([Listed("getTaskActivities", <<taskID>>, [k \in 1..Len(ks) |-> ActivityJSON(ks[k])])
                  EXCEPT !.id = taskID, !.before = activities])

\* GET /api/boards/:id/docs
getBoardDocs(boardID) ==
    \E ids \in Orders(DocsOfBoard(boardID)) :
       Answer(Listed("getBoardDocs", <<boardID>>,
                     [k \in 1..Len(ids) |-> DocJSON(ids[k], docs[ids[k]])]))

\* ------------------------------------------- updateTask, statement by statement
\* PUT /api/tasks/:id up to the end of its SELECT: the handler holds the
\* row it read
updateTaskSelect(id, P) ==
    /\ nUpdates < MaxUpdates
    /\ nUpdates' = nUpdates + 1
    /\ LET call == [NoCall EXCEPT !.op = "update", !.call = nUpdates + 1, !.id = id, !.P = P,
                                  !.before = tasks]
       IN IF id \notin DOMAIN tasks
          THEN /\ TaskNotFound(call)
               /\ UNCHANGED inflight
          ELSE /\ inflight' = inflight \cup
                      {[call |-> nUpdates + 1, id |-> id, P |-> P, oldTask |-> tasks[id],
                        pc |-> "selected", status |-> 0]}
               /\ UNCHANGED <<last, tasks, pending, indexing, bcasts>>
    /\ UNCHANGED <<boards, nextId, activities, embedding>>
    /\ UNCHANGED <<finished, docVars>>
    /\ UNCHANGED notifierVars
    /\ UNCHANGED <<memberVars, mcp, disp>>

\* the rest of the handler: the merge into the row it read, the UPDATE of
\* every column, the goroutines and the answer
updateTaskWrite(h) ==
    /\ h \in inflight
    /\ h.pc = "selected"
    /\ LET call == [NoCall EXCEPT !.op = "update", !.call = h.call, !.id = h.id, !.P = h.P,
                                  !.before = tasks]
           newTask == MergeTask(h.oldTask, BodyParser(h.P))
           acts == Emitted(h.id, h.oldTask, newTask)
       IN IF ~ForeignKeysHold(newTask)
          THEN /\ last' = [call EXCEPT !.status = 500]
               /\ inflight' = (inflight \ {h}) \cup {[h EXCEPT !.pc = "done", !.status = 500]}
               /\ UNCHANGED <<tasks, pending, indexing, bcasts>>
          ELSE /\ tasks' = [tasks EXCEPT ![h.id] = RowOf(newTask)]
               /\ pending' = pending \cup Goroutines(h.call, acts)
               /\ indexing' = indexing \cup {IndexingJob(CallOf("update", h.call), h.id, newTask)}
               /\ bcasts' = GoBroadcast(CallOf("update", h.call))
               /\ last' = [call EXCEPT !.status = 200, !.body = RowOf(newTask)]
               /\ inflight' = (inflight \ {h}) \cup {[h EXCEPT !.pc = "done", !.status = 200]}
    /\ UNCHANGED <<boards, nextId, nUpdates, activities, embedding>>
    /\ UNCHANGED <<finished, docVars>>
    /\ UNCHANGED notifierVars
    /\ UNCHANGED <<memberVars, mcp, disp>>

\* --------------------------------------------------------------- dispatcher
AGENTS == {"kodinger", "devo", "mozi", "resepsionis", "mimin"}

\* String.prototype.toLowerCase on the strings that occur
ToLowerCase(str) ==
    CASE str = "Todo" -> "todo"
      [] str = "Doing" -> "doing"
      [] OTHER -> str

\* allTasks.filter(...): list_id 'todo' in any case, assignee a known agent
FilterTodo(allTasks) ==
    SelectSeq(allTasks, LAMBDA t :
        /\ t.assignee_id # Nil
        /\ t.assignee_id[1] # ""
        /\ ToLowerCase(t.list_id) = "todo"
        /\ ToLowerCase(t.assignee_id[1]) \in AGENTS)

\* { ...task, list_id: 'doing', updated_by: agentName } as the body of the PUT
DispatchBody(task) ==
    [title |-> Some(task.title), description |-> Some(task.description),
     list_id |-> Some("doing"), position |-> Some(task.position),
     assignee_id |-> Some(task.assignee_id), board_id |-> Some(task.board_id),
     updated_by |-> Some(task.assignee_id[1])]

\* the cycle goes on after a task: to the next task of its list, or ends
NextTask(cycle) ==
    [cycle EXCEPT !.todoTasks = Tail(@),
                  !.pc = IF Tail(cycle.todoTasks) = <<>> THEN "done" ELSE "put"]

\* what the dispatcher leaves alone
Dispatching(c, cycle) ==
    /\ disp' = [disp EXCEPT !.cycles[c] = cycle]
    /\ UNCHANGED <<coreVars, mcp>>

\* pollTasks() at start and from setInterval, whether or not an earlier
\* call has returned
pollTasks ==
    /\ Len(disp.cycles) < MaxCycles
    /\ disp' = [disp EXCEPT !.cycles =
                   Append(@, [pc |-> "boards", boards |-> <<>>, allTasks |-> <<>>,
                              todoTasks |-> <<>>])]
    /\ UNCHANGED <<coreVars, mcp>>

\* await axios.get(/boards): the list of boards, or an error that ends the
\* cycle
fetchBoards(c) ==
    /\ c \in DOMAIN disp.cycles
    /\ disp.cycles[c].pc = "boards"
    /\ \E ids \in Orders(boards), answered \in BOOLEAN :
          Dispatching(c, [disp.cycles[c] EXCEPT
              !.boards = IF answered THEN ids ELSE <<>>,
              !.pc = IF answered /\ ids # <<>> THEN "tasks" ELSE "done"])

\* await axios.get(/boards/:id/tasks) for the next board, an error skips
\* the board; after the last board the filter, and the first PUT is due
fetchTasks(c) ==
    /\ c \in DOMAIN disp.cycles
    /\ disp.cycles[c].pc = "tasks"
    /\ LET cycle == disp.cycles[c]
           board == Head(cycle.boards)
       IN \E rows \in getBoardTasks(board) \cup {<<>>} :
             LET tasksWithBoardId ==
                     [k \in 1..Len(rows) |->
                         [rows[k] EXCEPT !.board_id = IF @ = "" THEN board ELSE @]]
                 allTasks == cycle.allTasks \o tasksWithBoardId
                 todoTasks == FilterTodo(allTasks)
             IN Dispatching(c,
                   IF Tail(cycle.boards) # <<>>
                   THEN [cycle EXCEPT !.boards = Tail(@), !.allTasks = allTasks]
                   ELSE [cycle EXCEPT !.boards = <<>>, !.allTasks = allTasks,
                                      !.todoTasks = todoTasks,
                                      !.pc = IF todoTasks = <<>> THEN "done" ELSE "put"])

\* processTask up to the answer of its PUT: the server handles the request
\* and a 200 leads to the spawn; any other answer is caught
putDoing(c) ==
    /\ c \in DOMAIN disp.cycles
    /\ disp.cycles[c].pc = "put"
    /\ LET cycle == disp.cycles[c]
           task == Head(cycle.todoTasks)
       IN /\ updateTaskHandler(task.id, DispatchBody(task))
          /\ disp' = [disp EXCEPT !.cycles[c] =
                         IF last'.status = 200 THEN [cycle EXCEPT !.pc = "spawn"]
                         ELSE NextTask(cycle)]

\* the PUT does not reach the server: axios throws, processTask returns
putFails(c) ==
    /\ c \in DOMAIN disp.cycles
    /\ disp.cycles[c].pc = "put"
    /\ Dispatching(c, NextTask(disp.cycles[c]))

\* runCommand('openclaw', ['agent', '--agent', agentName, ...])
spawnAgent(c) ==
    /\ c \in DOMAIN disp.cycles
    /\ disp.cycles[c].pc = "spawn"
    /\ LET task == Head(disp.cycles[c].todoTasks)
       IN disp' = [disp EXCEPT
             !.sessions = Append(@, [task |-> task.id, agent |-> task.assignee_id[1], cycle |-> c]),
             !.cycles[c].pc = "running"]
    /\ UNCHANGED <<coreVars, mcp>>

\* the agent process closes and the loop of pollTasks goes on
agentCloses(c) ==
    /\ c \in DOMAIN disp.cycles
    /\ disp.cycles[c].pc = "running"
    /\ Dispatching(c, NextTask(disp.cycles[c]))

\* --------------------------------------------------------- protocol adapter
\* a string as the adapter measures it: String.length counts UTF-16 units,
\* Buffer.from(s) holds its UTF-8 bytes ("é" is one unit and two bytes)
Units(piece) == IF piece \in {"Bearer ", "bearer "} THEN 7 ELSE 1
Bytes(piece) == IF piece = "é" THEN 2 ELSE Units(piece)
RECURSIVE Utf16Len(_)
Utf16Len(str) == IF str = <<>> THEN 0 ELSE Units(Head(str)) + Utf16Len(Tail(str))
RECURSIVE ByteLen(_)
ByteLen(str) == IF str = <<>> THEN 0 ELSE Bytes(Head(str)) + ByteLen(Tail(str))

\* the Authorization headers, the routes, the mcp-session-id values (0: no
\* header, 9: an id the adapter never assigned) and the JSON-RPC methods
\* of the requests
Headers ==
    {Absent, Some(<<"k">>), Some(<<"Bearer ", "k">>), Some(<<"Bearer ", "x">>),
     Some(<<"Bearer ", "é">>), Some(<<"bearer ", "k">>), Some(<<"Bearer ", "k", "k">>)}
McpRoutes == {"POST /mcp", "GET /mcp", "DELETE /mcp"}
Routes == McpRoutes \cup {"OPTIONS", "GET /sse", "POST /messages"}
Sids == 0..MaxTransports \cup {9}
Rpcs == {"initialize", "tools/call", "none"}
Requests == [route : Routes, authorization : Headers, sid : Sids, rpc : Rpcs]
\* the requests each route handler is tried with, and those the middleware
\* is tried with (it reads the method and the Authorization header only)
PostMcpRequests == {r \in Requests : r.route = "POST /mcp"}
GetMcpRequests == {r \in Requests : r.route = "GET /mcp" /\ r.rpc = "none"}
DeleteMcpRequests == {r \in Requests : r.route = "DELETE /mcp" /\ r.rpc = "none"}
SseRequests == {r \in Requests : r.route = "GET /sse" /\ r.sid = 0 /\ r.rpc = "none"}
MessageRequests == {r \in Requests : r.route = "POST /messages" /\ r.rpc # "initialize"}
MiddlewareRequests == {r \in Requests : r.sid \in {0, 1} /\ r.rpc = "tools/call"}

\* app.use(cors()) and the auth middleware: 0 when next() reaches the route
\* handler, else the status of the answer. cors() answers a preflight
\* itself; crypto.timingSafeEqual throws on buffers of different byte
\* length, which express answers with 500
Middleware_LengthOnly(key, r) ==
    IF r.route = "OPTIONS" THEN 204
    ELSE IF key = Absent \/ key[1] = <<>> THEN 500
    ELSE IF r.authorization = Absent \/ r.authorization[1] = <<>> THEN 401
    ELSE IF Utf16Len(r.authorization[1]) # Utf16Len(<<"Bearer ">> \o key[1]) THEN 401
    ELSE 0
Middleware(key, r) ==
    IF r.route = "OPTIONS" THEN 204
    ELSE IF key = Absent \/ key[1] = <<>> THEN 500
    ELSE LET authHeader == r.authorization
             expected == <<"Bearer ">> \o key[1]
         IN IF authHeader = Absent \/ authHeader[1] = <<>> THEN 401
            ELSE IF Utf16Len(authHeader[1]) # Utf16Len(expected) THEN 401
            ELSE IF ByteLen(authHeader[1]) # ByteLen(expected) THEN 500
            ELSE IF authHeader[1] # expected THEN 401
            ELSE 0

\* a request the middleware chain answers itself
rejected(r) ==
    /\ Middleware(mcp.MCP_API_KEY, r) # 0
    /\ mcp' = [mcp EXCEPT !.last = [AdapterCall(r) EXCEPT !.status = Middleware(mcp.MCP_API_KEY, r)]]
    /\ UNCHANGED <<coreVars, disp>>

\* a request that reached its route handler, and whether it named a
\* registered streamable session
Reached(r) ==
    [AdapterCall(r) EXCEPT !.served = TRUE,
                           !.known = r.sid # 0 /\ r.sid \in mcp.streamableTransports]

\* transport.close() of the SDK, which calls transport.onclose
Closed(ts, t) == [ts EXCEPT ![t].closed = TRUE]
OnClose(registry, ts, t) ==
    IF ts[t].sessionId # 0 THEN registry \ {ts[t].sessionId} ELSE registry

\* the transports created so far, of both kinds
SessionsCreated(m) == Len(m.transports) + m.sse

\* POST /mcp up to its first await: a registered session gets the request
\* (a tools/call goes on to the core API), a session-less initialize gets
\* a new transport, anything else 400
postMcp(r) ==
    /\ r.route = "POST /mcp"
    /\ Middleware(mcp.MCP_API_KEY, r) = 0
    /\ LET call == Reached(r)
       IN IF call.known
          THEN mcp' = [mcp EXCEPT !.last = [call EXCEPT !.status = 200,
                                                        !.forwarded = r.rpc = "tools/call"]]
          ELSE IF r.sid = 0 /\ r.rpc = "initialize"
          THEN /\ SessionsCreated(mcp) < MaxTransports
               /\ mcp' = [mcp EXCEPT
                     !.transports = Append(@, [sessionId |-> 0, closed |-> FALSE, pc |-> "handling"]),
                     !.last = [call EXCEPT !.created = Len(mcp.transports) + 1]]
          ELSE mcp' = [mcp EXCEPT !.last = [call EXCEPT !.status = 400]]
    /\ UNCHANGED <<coreVars, disp>>

\* transport.handleRequest of the SDK on the initialize message: it
\* assigns the session id, or refuses the message and assigns none
sdkInitialize(t) ==
    /\ t \in DOMAIN mcp.transports
    /\ mcp.transports[t].pc = "handling"
    /\ \E accepted \in BOOLEAN :
          mcp' = [mcp EXCEPT !.transports[t].sessionId = IF accepted THEN t ELSE 0,
                             !.transports[t].pc = "assigned"]
    /\ UNCHANGED <<coreVars, disp>>

\* POST /mcp after `await transport.handleRequest`: the session is
\* registered when the transport has an id; a rejected promise goes to
\* the catch block
initializeResumes(t) ==
    /\ t \in DOMAIN mcp.transports
    /\ mcp.transports[t].pc = "assigned"
    /\ \E threw \in BOOLEAN :
          mcp' = [mcp EXCEPT
             !.streamableTransports =
                 IF ~threw /\ mcp.transports[t].sessionId # 0
                 THEN @ \cup {mcp.transports[t].sessionId} ELSE @,
             !.transports[t].pc = "done"]
    /\ UNCHANGED <<coreVars, disp>>

\* a streamable transport closes (the SDK calls onclose)
transportCloses(t) ==
    /\ t \in DOMAIN mcp.transports
    /\ ~mcp.transports[t].closed
    /\ mcp' = [mcp EXCEPT !.transports = Closed(@, t),
                          !.streamableTransports = OnClose(@, mcp.transports, t)]
    /\ UNCHANGED <<coreVars, disp>>

\* GET /mcp
getMcp(r) ==
    /\ r.route = "GET /mcp"
    /\ Middleware(mcp.MCP_API_KEY, r) = 0
    /\ LET call == Reached(r)
       IN mcp' = [mcp EXCEPT !.last = [call EXCEPT !.status = IF call.known THEN 200 ELSE 400]]
    /\ UNCHANGED <<coreVars, disp>>

\* DELETE /mcp: the transport of a registered session handles the request
\* by closing itself
deleteMcp(r) ==
    /\ r.route = "DELETE /mcp"
    /\ Middleware(mcp.MCP_API_KEY, r) = 0
    /\ LET call == Reached(r)
       IN IF call.known
          THEN mcp' = [mcp EXCEPT !.transports = Closed(@, r.sid),
                                  !.streamableTransports = OnClose(@, mcp.transports, r.sid),
                                  !.last = [call EXCEPT !.status = 200]]
          ELSE mcp' = [mcp EXCEPT !.last = [call EXCEPT !.status = 400]]
    /\ UNCHANGED <<coreVars, disp>>

\* GET /sse: a legacy transport, registered at once
getSse(r) ==
    /\ r.route = "GET /sse"
    /\ Middleware(mcp.MCP_API_KEY, r) = 0
    /\ SessionsCreated(mcp) < MaxTransports
    /\ mcp' = [mcp EXCEPT !.sse = @ + 1,
                          !.sseTransports = @ \cup {mcp.sse + 1},
                          !.last = [Reached(r) EXCEPT !.status = 200, !.created = mcp.sse + 1]]
    /\ UNCHANGED <<coreVars, disp>>

\* a legacy transport closes
sseCloses(s) ==
    /\ s \in mcp.sseTransports
    /\ mcp' = [mcp EXCEPT !.sseTransports = @ \ {s}]
    /\ UNCHANGED <<coreVars, disp>>

\* POST /messages?sessionId=
postMessages(r) ==
    /\ r.route = "POST /messages"
    /\ Middleware(mcp.MCP_API_KEY, r) = 0
    /\ LET call == Reached(r)
       IN mcp' = [mcp EXCEPT !.last =
             IF r.sid = 0 THEN [call EXCEPT !.status = 400]
             ELSE IF r.sid \notin mcp.sseTransports THEN [call EXCEPT !.status = 404]
             ELSE [call EXCEPT !.status = 200, !.forwarded = r.rpc = "tools/call"]]
    /\ UNCHANGED <<coreVars, disp>>

Next ==
    \/ \E b \in BoardIds : createBoard(b)
    \/ \E P \in CreatePayloads : createTask(P)
    \/ \E id \in TaskIds, P \in Payloads : updateTask(id, P)

Spec == Init /\ [][Next]_vars

NextLedger ==
    \/ \E P \in CreatePayloads : createTask(P)
    \/ \E id \in TaskIds, P \in LedgerPayloads :
          Cardinality(pending) < MaxPending /\ updateTask(id, P)
    \/ \E g \in pending : logActivity(g)

SpecLedger == Init /\ [][NextLedger]_vars

\* the handlers that write what GET /api/boards/:id/tasks reads
NextBoard ==
    \/ \E b \in BoardIds : createBoard(b)
    \/ \E P \in BoardCreatePayloads : createTask(P)
    \/ \E id \in TaskIds, P \in BoardPayloads : updateTask(id, P)

SpecBoard == Init /\ [][NextBoard]_vars

\* the handlers together with every goroutine they start and the websocket
\* handlers
NextAsync ==
    \/ \E P \in CreatePayloads : Cardinality(DOMAIN bcasts) < MaxCalls /\ createTask(P)
    \/ \E id \in TaskIds, P \in AsyncPayloads :
          Cardinality(DOMAIN bcasts) < MaxCalls /\ updateTask(id, P)
    \/ \E g \in pending : logActivity(g)
    \/ \E j \in indexing, a1 \in AsyncAnswers :
          updateEmbedding(j, Configured, a1, "200", TRUE)
    \/ \E c \in AsyncConns :
          \/ wsAccept(c)
          \/ wsLock(c)
          \/ wsRegister(c)
          \/ peerCloses(c)
          \/ wsReadError(c)
          \/ wsDeferredLock(c)
          \/ wsUnregister(c)
    \/ \E b \in DOMAIN bcasts :
          \/ bLock(b)
          \/ \E ch \in AsyncConns : bWrite(b, ch)
          \/ bUnlock(b)

SpecAsync == Init /\ [][NextAsync]_vars

\* the handlers and the indexing goroutines they start, each goroutine run
\* at any later moment and in any order
NextIndexer ==
    \/ \E P \in IndexerCreatePayloads : createTask(P)
    \/ \E id \in TaskIds, P \in IndexerPayloads : updateTask(id, P)
    \/ \E j \in indexing, a1 \in IndexerAnswers :
          updateEmbedding(j, Configured, a1, "200", TRUE)

SpecIndexer == Init /\ [][NextIndexer]_vars

\* the handlers that start an indexing goroutine, and the goroutines run
\* against every environment, every provider answer and every outcome of
\* the write
NextProvider ==
    \/ \E P \in IndexerCreatePayloads : JobCount < MaxCalls /\ createTask(P)
    \/ \E D \in ProviderDocPayloads : JobCount < MaxCalls /\ createDoc("b1", D)
    \/ \E id \in DocIds, D \in ProviderDocPayloads : JobCount < MaxCalls /\ updateDoc(id, D)
    \/ \E j \in indexing, x \in ProviderRuns :
          \/ updateEmbedding(j, x.env, x.a1, x.a2, x.dbOK)
          \/ updateDocEmbedding(j, x.env, x.a1, x.a2, x.dbOK)

SpecProvider == Init /\ [][NextProvider]_vars

\* a call of generateEmbedding made by a search: no provider configured, a
\* transport error, or a vector; then the query fails or returns rows
SearchRuns ==
    {x \in ProviderRuns : x.a1 \in {"200", "transport error"} /\ x.env.OPENAI_API_KEY = ""}

\* documents written, indexed by their goroutines, deleted, and searched
\* with and without a board scope; the tasks table searched as well
NextSearch ==
    \/ \E b \in BoardIds, D \in SearchDocPayloads : JobCount < MaxCalls /\ createDoc(b, D)
    \/ \E id \in DocIds : deleteDoc(id)
    \/ \E j \in indexing, a1 \in SearchAnswers :
          updateDocEmbedding(j, Configured, a1, "200", TRUE)
    \/ \E q \in Queries, x \in SearchRuns :
          \/ searchTasks(q, x.env, x.a1, x.a2, x.dbOK)
          \/ \E boardID \in {""} \cup BoardIds :
                searchDocs(q, boardID, x.env, x.a1, x.a2, x.dbOK)

SpecSearch == Init /\ [][NextSearch]_vars

\* the kinds of row a table can hold when it is searched: the board, the
\* text, and whether the indexing goroutine of the row has stored a vector
RowKinds ==
    <<[board_id |-> "b1", title |-> "A", content |-> "", indexed |-> TRUE],
      [board_id |-> "b1", title |-> "A", content |-> "c", indexed |-> TRUE],
      [board_id |-> "b1", title |-> "B", content |-> "", indexed |-> TRUE],
      [board_id |-> "b1", title |-> "B", content |-> "c", indexed |-> TRUE],
      [board_id |-> "b1", title |-> "A", content |-> "", indexed |-> FALSE],
      [board_id |-> "b2", title |-> "A", content |-> "", indexed |-> TRUE]>>

\* the sequences of n kinds, none before kind lo: rows of one kind are
\* interchangeable, so the kinds come in one order
RECURSIVE Sorted(_, _)
Sorted(n, lo) ==
    IF n = 0
    THEN {<<>>}
    ELSE UNION {{<<k>> \o rest : rest \in Sorted(n - 1, k)} : k \in lo..Len(RowKinds)}

\* the tables of n rows with at most MaxSame rows of a kind
Corpora(n) ==
    {c \in Sorted(n, 1) :
        \A k \in 1..Len(RowKinds) : Cardinality({i \in 1..n : c[i] = k}) <= MaxSame}

\* column embedding of a row of kind k
EmbeddingOfKind(k) == IF k.indexed THEN VectorOf(<<k.title, " ", k.content>>) ELSE Null

\* the server after the handlers and goroutines have left up to MaxRows
\* tasks and as many documents on the boards b1 and b2, every goroutine run
InitRanking ==
    /\ boards = BoardIds
    /\ \E n \in 0..MaxRows : \E c \in Corpora(n) :
          /\ tasks = [i \in 1..n |->
                        [board_id |-> RowKinds[c[i]].board_id, title |-> RowKinds[c[i]].title,
                         description |-> RowKinds[c[i]].content, list_id |-> "todo",
                         position |-> 0, assignee_id |-> Nil]]
          /\ embedding = [i \in 1..n |-> EmbeddingOfKind(RowKinds[c[i]])]
          /\ docs = [i \in 1..n |->
                       [board_id |-> RowKinds[c[i]].board_id, title |-> RowKinds[c[i]].title,
                        content |-> RowKinds[c[i]].content,
                        embedding |-> EmbeddingOfKind(RowKinds[c[i]])]]
          /\ nextId = n + 1
          /\ nextDocId = n + 1
    /\ pending = {}
    /\ activities = <<>>
    /\ last = NoCall
    /\ nUpdates = 0
    /\ indexing = {}
    /\ finished = {}
    /\ bcasts = <<>>
    /\ clients = {}
    /\ clientsMu = Free
    /\ conns = [c \in Conns |-> [pc |-> "none", alive |-> FALSE]]
    /\ tokens = [c \in Conns |-> <<>>]
    /\ boardMembers = boards \X Members
    /\ inflight = {}
    /\ mcp = AdapterStarted(ConfiguredKey)
    /\ disp = DispatcherStarted

\* the searches of a server whose provider answers and whose query runs; a
\* search leaves every table as it is, so the first search of a run shows
\* all a later one can show
NextRanking ==
    /\ last = NoCall
    /\ \E q \in RankingQueries :
          \/ searchTasks(q, Configured, "200", "200", TRUE)
          \/ \E boardID \in {""} \cup BoardIds :
                searchDocs(q, boardID, Configured, "200", "200", TRUE)

SpecRanking == InitRanking /\ [][NextRanking]_vars

\* every handler that writes a table, and the logActivity goroutines
NextRepository ==
    \/ \E b \in BoardIds : createBoard(b)
    \/ \E P \in RepositoryCreatePayloads : JobCount < MaxCalls /\ createTask(P)
    \/ \E id \in TaskIds, P \in RepositoryPayloads : JobCount < MaxCalls /\ updateTask(id, P)
    \/ \E id \in TaskIds, P \in UnknownMemberPayloads : updateTask(id, P)
    \/ \E g \in pending : logActivity(g)
    \/ \E D \in RepositoryDocPayloads : JobCount < MaxCalls /\ createDoc("b1", D)
    \/ \E id \in DocIds, D \in RepositoryDocPayloads : JobCount < MaxCalls /\ updateDoc(id, D)
    \/ \E id \in DocIds : deleteDoc(id)
    \/ \E m \in {"devo", "ghost"} : addBoardMember("b1", m)
    \/ \E m \in {"devo"} : removeBoardMember("b1", m)

SpecRepository == Init /\ [][NextRepository]_vars

\* the list handlers and the searches between the writes that fill and
\* empty what they read, on a server that started with its board or
\* without any; a list handler changes no table, so one that follows
\* another list handler shows nothing the first of a state does not show
NextLists ==
    \/ \E P \in IndexerCreatePayloads : JobCount < MaxCalls /\ createTask(P)
    \/ \E P \in ListsPayloads : JobCount < MaxCalls /\ updateTask(1, P)
    \/ \E g \in pending : logActivity(g)
    \/ \E D \in RepositoryDocPayloads : JobCount < MaxCalls /\ createDoc("b1", D)
    \/ \E j \in indexing : updateDocEmbedding(j, Configured, "200", "200", TRUE)
    \/ \E id \in DocIds : deleteDoc(id)
    \/ /\ last.json = ""
       /\ \/ getBoards
          \/ getMembers
          \/ \E b \in BoardIds : listTasks(b) \/ getBoardMembers(b) \/ getBoardDocs(b)
          \/ \E id \in TaskIds : getTaskActivities(id)
          \/ searchTasks("A", Configured, "200", "200", TRUE)
          \/ \E boardID \in {"", "b1"} :
                searchDocs("A", boardID, Configured, "200", "200", TRUE)

SpecLists == Init /\ [][NextLists]_vars

\* the updates of tasks, the inserts of their logActivity goroutines in any
\* order, and the reading of a task's activities
NextHistory ==
    \/ \E P \in IndexerCreatePayloads : createTask(P)
    \/ \E id \in TaskIds, P \in HistoryPayloads :
          Cardinality(pending) < MaxPending /\ updateTask(id, P)
    \/ \E g \in pending : logActivity(g)
    \/ \E id \in TaskIds : last.json = "" /\ getTaskActivities(id)

SpecHistory == Init /\ [][NextHistory]_vars

\* boards created and deleted between the writes of their tasks, documents
\* and memberships, and the listing of the tasks of a board
NextCascade ==
    \/ \E b \in BoardIds : createBoard(b)
    \/ \E b \in BoardIds : deleteBoard(b)
    \/ \E P \in CascadeCreatePayloads : JobCount <= MaxCalls /\ createTask(P)
    \/ \E id \in TaskIds, P \in CascadePayloads : JobCount <= MaxCalls /\ updateTask(id, P)
    \/ \E b \in BoardIds, D \in RepositoryDocPayloads : JobCount <= MaxCalls /\ createDoc(b, D)
    \/ \E b \in BoardIds : last.json = "" /\ listTasks(b)

SpecCascade == Init /\ [][NextCascade]_vars

\* the handlers, the websocket handlers and the broadcastUpdate goroutines
NextNotifier ==
    \/ \E P \in CreatePayloads : Cardinality(DOMAIN bcasts) < MaxCalls /\ createTask(P)
    \/ \E id \in TaskIds, P \in AsyncPayloads :
          Cardinality(DOMAIN bcasts) < MaxCalls /\ updateTask(id, P)
    \/ \E c \in Conns :
          \/ wsAccept(c)
          \/ wsLock(c)
          \/ wsRegister(c)
          \/ peerCloses(c)
          \/ wsReadError(c)
          \/ wsDeferredLock(c)
          \/ wsUnregister(c)
    \/ \E b \in DOMAIN bcasts :
          \/ bLock(b)
          \/ \E ch \in Conns : bWrite(b, ch)
          \/ bUnlock(b)

SpecNotifier == Init /\ [][NextNotifier]_vars

\* a step of a goroutine that holds clientsMu or waits for it in
\* broadcastUpdate: the scheduler runs every started goroutine, and a holder
\* of the mutex always reaches its Unlock
GoroutineStep ==
    \/ \E c \in Conns : wsRegister(c) \/ wsUnregister(c)
    \/ \E b \in DOMAIN bcasts :
          \/ bLock(b)
          \/ \E ch \in Conns : bWrite(b, ch)
          \/ bUnlock(b)

SpecNotifierFair == SpecNotifier /\ WF_vars(GoroutineStep)

\* the protocol adapter alone: requests, the SDK's steps on an initialize
\* message, and transports closing
NextAdapter ==
    \/ \E r \in MiddlewareRequests : rejected(r)
    \/ \E r \in PostMcpRequests : postMcp(r)
    \/ \E t \in 1..MaxTransports : sdkInitialize(t)
    \/ \E t \in 1..MaxTransports : initializeResumes(t)
    \/ \E t \in 1..MaxTransports : transportCloses(t)
    \/ \E r \in GetMcpRequests : getMcp(r)
    \/ \E r \in DeleteMcpRequests : deleteMcp(r)
    \/ \E r \in SseRequests : getSse(r)
    \/ \E s \in 1..MaxTransports : sseCloses(s)
    \/ \E r \in MessageRequests : postMessages(r)
SpecAdapter == InitAdapter /\ [][NextAdapter]_vars

\* update handlers of one server interleaved between their SELECT and
\* their UPDATE, with the goroutines they start
NextConcurrent ==
    \/ \E P \in IndexerCreatePayloads : createTask(P)
    \/ \E id \in TaskIds, P \in ConcurrentPayloads : updateTaskSelect(id, P)
    \/ \E h \in inflight : updateTaskWrite(h)
    \/ \E g \in pending : logActivity(g)
SpecConcurrent == Init /\ [][NextConcurrent]_vars

\* the dispatcher against the server: tasks are created, poll cycles start
\* and run side by side
NextDispatcher ==
    \/ \E P \in DispatchCreatePayloads : createTask(P)
    \/ pollTasks
    \/ \E c \in 1..MaxCycles : fetchBoards(c)
    \/ \E c \in 1..MaxCycles : fetchTasks(c)
    \/ \E c \in 1..MaxCycles : putDoing(c)
    \/ \E c \in 1..MaxCycles : putFails(c)
    \/ \E c \in 1..MaxCycles : spawnAgent(c)
    \/ \E c \in 1..MaxCycles : agentCloses(c)
SpecDispatcher == Init /\ [][NextDispatcher]_vars

\* ------------------------------------------------- vocabulary of the claims
\* the last request was an update_task that reported success
UpdatedOK == last.op = "update" /\ last.status = 200
\* the row of the updated task as stored before the call and as stored now
OldRow == last.before[last.id]
NewRow == tasks[last.id]
\* the value a string member of the body carries: "" when absent
Carried(m) == IF m = Absent THEN "" ELSE m[1]
\* the logActivity goroutines call c started, run or not
Started(c) ==
    {g \in pending : g.call = c}
    \cup {activities[i] : i \in {j \in DOMAIN activities : activities[j].call = c}}
ActsOf(c, action) == {g \in Started(c) : g.act.action = action}
CountOf(action) == Cardinality(ActsOf(last.call, action))

\* C1: update_task merges field-wise: after an update that reports success,
\* title, description and board_id hold the payload's value when that is
\* non-empty and the previously stored value otherwise; whatever the update
\* reports, no other task row is changed.
C1_MergeFieldwise ==
    /\ UpdatedOK =>
        /\ NewRow.title = IF Carried(last.P.title) # "" THEN last.P.title[1] ELSE OldRow.title
        /\ NewRow.description =
               IF Carried(last.P.description) # "" THEN last.P.description[1] ELSE OldRow.description
        /\ NewRow.board_id =
               IF Carried(last.P.board_id) # "" THEN last.P.board_id[1] ELSE OldRow.board_id
    /\ last.op = "update" =>
        /\ DOMAIN tasks = DOMAIN last.before
        /\ \A j \in DOMAIN tasks \ {last.id} : tasks[j] = last.before[j]

\* a second row exists, the body carries a new title and board and no
\* description: title and board are replaced, the description is kept
C1_Witness ==
    /\ UpdatedOK
    /\ Cardinality(DOMAIN tasks) = 2
    /\ last.P.title = Some("B") /\ OldRow.title = "A" /\ NewRow.title = "B"
    /\ last.P.board_id = Some("b2") /\ OldRow.board_id = "b1" /\ NewRow.board_id = "b2"
    /\ last.P.description = Absent /\ NewRow.description = "d1"

\* C2: an update_task whose payload omits position leaves the stored
\* position unchanged, for every prior position (stated for the updates that
\* report success).
C2_OmittedPositionKept ==
    (UpdatedOK /\ last.P.position = Absent) => NewRow.position = OldRow.position

\* C3 as stated: list_id and position are applied verbatim whenever present
\* in the payload of an update that reports success.
C3_VerbatimWhenPresent ==
    UpdatedOK =>
        /\ last.P.position # Absent => NewRow.position = last.P.position[1]
        /\ last.P.list_id # Absent => NewRow.list_id = last.P.list_id[1]

\* C3 amended: a present position (0 included) becomes the stored position;
\* a present list_id becomes the stored list_id when it is non-empty, and an
\* empty list_id leaves the stored list_id as it was.
C3_PositionVerbatimListNonEmpty ==
    UpdatedOK =>
        /\ last.P.position # Absent => NewRow.position = last.P.position[1]
        /\ last.P.list_id # Absent =>
               NewRow.list_id = IF last.P.list_id[1] # "" THEN last.P.list_id[1] ELSE OldRow.list_id

\* position 0 replaces a stored 1 while the empty list_id of the same body
\* leaves the stored list in place
C3_Witness ==
    /\ UpdatedOK
    /\ last.P.position = Some(0) /\ OldRow.position = 1 /\ NewRow.position = 0
    /\ last.P.list_id = Some("") /\ OldRow.list_id = "todo" /\ NewRow.list_id = "todo"

\* C4: an update_task on a task whose assignee is set, with assignee_id null
\* in the payload, leaves the task with no assignee and emits exactly one
\* 'unassigned' activity.
C4_NullClearsAssignee ==
    (UpdatedOK /\ OldRow.assignee_id # Nil /\ last.P.assignee_id = Some(Nil)) =>
        /\ NewRow.assignee_id = Nil
        /\ CountOf("unassigned") = 1

\* C5 as stated: changing the assignee from one non-empty member id to a
\* different non-empty member id emits no 'assigned' or 'unassigned' activity.
C5_ReassignSilent ==
    (/\ UpdatedOK
     /\ Deref(OldRow.assignee_id) # "" /\ Deref(NewRow.assignee_id) # ""
     /\ Deref(OldRow.assignee_id) # Deref(NewRow.assignee_id)) =>
        CountOf("assigned") = 0 /\ CountOf("unassigned") = 0

\* C5 amended: changing the assignee from one non-empty member id to a
\* different non-empty member id emits exactly one 'assigned' activity naming
\* the new id, and no 'unassigned' activity.
C5_ReassignEmitsAssigned ==
    (/\ UpdatedOK
     /\ Deref(OldRow.assignee_id) # "" /\ Deref(NewRow.assignee_id) # ""
     /\ Deref(OldRow.assignee_id) # Deref(NewRow.assignee_id)) =>
        /\ CountOf("assigned") = 1
        /\ \A g \in ActsOf(last.call, "assigned") :
               g.act.details = AssignedDetails(Deref(NewRow.assignee_id)) /\ g.act.task_id = last.id
        /\ CountOf("unassigned") = 0

\* the task went from kodinger to devo and one 'assigned' goroutine started
C5_Witness ==
    /\ UpdatedOK
    /\ OldRow.assignee_id = Ptr("kodinger") /\ last.P.assignee_id = Some(Ptr("devo"))
    /\ NewRow.assignee_id = Ptr("devo")
    /\ CountOf("assigned") = 1

\* C6: setting the assignee of a task with no assignee to a member id emits
\* exactly one 'assigned' activity naming that id, and no 'unassigned'.
C6_AssignFromNone ==
    (/\ UpdatedOK
     /\ OldRow.assignee_id = Nil
     /\ last.P.assignee_id # Absent /\ Deref(last.P.assignee_id[1]) # "") =>
        /\ CountOf("assigned") = 1
        /\ \A g \in ActsOf(last.call, "assigned") :
               g.act.details = AssignedDetails(last.P.assignee_id[1][1]) /\ g.act.task_id = last.id
        /\ CountOf("unassigned") = 0

\* an unassigned task was given to kodinger and one 'assigned' goroutine started
C6_Witness ==
    /\ UpdatedOK
    /\ OldRow.assignee_id = Nil /\ last.P.assignee_id = Some(Ptr("kodinger"))
    /\ NewRow.assignee_id = Ptr("kodinger")
    /\ CountOf("assigned") = 1

\* C7: an update that changes list_id emits exactly one 'moved' activity whose
\* details name the new list_id; an update whose resulting list_id equals the
\* stored one emits no 'moved' activity.
C7_MovedIffListChanged ==
    UpdatedOK =>
        IF NewRow.list_id # OldRow.list_id
        THEN /\ CountOf("moved") = 1
             /\ \A g \in ActsOf(last.call, "moved") :
                    g.act.details = MovedDetails(NewRow.list_id) /\ g.act.task_id = last.id
        ELSE CountOf("moved") = 0

\* todo -> doing started one 'moved' goroutine naming "doing"
C7_Witness ==
    /\ UpdatedOK
    /\ OldRow.list_id = "todo" /\ last.P.list_id = Some("doing") /\ NewRow.list_id = "doing"
    /\ CountOf("moved") = 1

\* C8: an update whose payload carries only a new description emits exactly
\* one 'updated' activity and no 'moved', 'assigned' or 'unassigned' activity.
C8_DescriptionOnly ==
    (/\ UpdatedOK
     /\ Present(last.P) = {"description"}
     /\ last.P.description[1] # "" /\ last.P.description[1] # OldRow.description) =>
        /\ CountOf("updated") = 1
        /\ CountOf("moved") = 0 /\ CountOf("assigned") = 0 /\ CountOf("unassigned") = 0

\* a task with description d1 was given description d2
C8_Witness ==
    /\ UpdatedOK
    /\ Present(last.P) = {"description"} /\ last.P.description = Some("d2")
    /\ OldRow.description = "d1" /\ NewRow.description = "d2"
    /\ CountOf("updated") = 1

\* C9: when one update_task changes list_id, assignee and description
\* together, its activities are appended to the ledger in the order moved,
\* assigned/unassigned, updated, for every scheduling of the inserts.
C9_LedgerOrderFixed ==
    \A i, j \in DOMAIN activities :
        (/\ i < j
         /\ activities[i].call = activities[j].call
         /\ Cardinality(Started(activities[i].call)) = 3) =>
            activities[i].k < activities[j].k

\* C10: applying the same partial payload to the same task twice in
\* succession leaves the stored task after the second call equal to the
\* stored task after the first, and the second call emits no activity.
C10_Idempotent ==
    (UpdatedOK /\ last.repeat) =>
        /\ NewRow = OldRow
        /\ Started(last.call) = {}

\* the first of the two calls moved and reassigned the task (its two
\* goroutines started), the second found nothing to change
C10_Witness ==
    /\ UpdatedOK /\ last.repeat
    /\ last.P.list_id = Some("doing") /\ last.P.assignee_id = Some(Ptr("devo"))
    /\ NewRow.list_id = "doing" /\ NewRow.assignee_id = Ptr("devo")
    /\ Cardinality(Started(last.call - 1)) = 2
    /\ Started(last.call) = {}

\* C11: every activity emitted by an update_task carries as user_id the
\* payload's updated_by when that is non-empty and 'mirza' otherwise;
\* updated_by is not a column of the stored task, so the attribution of one
\* update is not carried over to the next.
C11_ActingIdentity ==
    /\ UpdatedOK =>
           \A g \in Started(last.call) :
               g.act.user_id =
                   IF Carried(last.P.updated_by) # "" THEN last.P.updated_by[1] ELSE "mirza"
    /\ \A i \in DOMAIN tasks : "updated_by" \notin DOMAIN tasks[i]

\* the first update moved the task signed by devo; the second one, with an
\* empty updated_by, changed the description and is attributed to mirza
C11_Witness ==
    /\ UpdatedOK /\ last.call = 2
    /\ last.P.updated_by = Some("") /\ CountOf("updated") = 1
    /\ \A g \in Started(2) : g.act.user_id = "mirza" /\ g.act.task_id = last.id
    /\ \E g \in Started(1) :
           g.act.user_id = "devo" /\ g.act.action = "moved" /\ g.act.task_id = last.id

\* the call of the last request and its goroutines
LastCall == CallOf(last.op, IF last.op = "create" THEN last.id ELSE last.call)
CalledOK == last.op \in {"create", "update"} /\ last.status = 200
IndexingOf(c) == {j \in indexing : j.call = c}
\* the logActivity, updateEmbedding and broadcastUpdate goroutines of the
\* last call have all run and all failed: nothing of the call is in the
\* ledger, the stored embedding is not the one of the written text, every
\* write of the broadcast (there was one) returned an error
AllGoroutinesFailed ==
    /\ last.op = "update" => Started(last.call) = {}
    /\ IndexingOf(LastCall) = {}
    /\ embedding[last.id] # VectorOf(<<tasks[last.id].title, " ", tasks[last.id].description>>)
    /\ bcasts[LastCall].pc = "done"
    /\ bcasts[LastCall].ranged # {} /\ bcasts[LastCall].failed = bcasts[LastCall].ranged

\* C12: when the primary write of create_task or update_task succeeds the
\* call reports success and the written row stays committed, whatever
\* becomes of the activity inserts, the indexing job and the broadcast of the
\* call: the tasks table changes only in a step that reports 200 with the
\* written row as its body, and as long as no other request is served the
\* stored row equals that body.
C12_PrimaryWriteStands ==
    /\ [](CalledOK => last.id \in DOMAIN tasks /\ tasks[last.id] = last.body)
    /\ [][tasks' # tasks =>
             /\ last'.op \in {"create", "update"} /\ last'.status = 200
             /\ tasks'[last'.id] = last'.body]_vars

\* an update changed the description; its ledger insert, its indexing job
\* and the only write of its broadcast failed, and the row is as written
C12_Witness ==
    /\ UpdatedOK
    /\ OldRow.description # NewRow.description /\ NewRow.description = "d1"
    /\ AllGoroutinesFailed
    /\ tasks[last.id] = last.body

\* the goroutines of every kind the last update started
NothingStarted ==
    /\ Started(last.call) = {}
    /\ IndexingOf(CallOf("update", last.call)) = {}
    /\ CallOf("update", last.call) \notin DOMAIN bcasts
\* the body of the last request names a board that is not in table boards or
\* an assignee that is not in table members
NamesMissingRow ==
    \/ Carried(last.P.board_id) # "" /\ last.P.board_id[1] \notin boards
    \/ /\ last.P.assignee_id # Absent /\ last.P.assignee_id[1] # Nil
       /\ last.P.assignee_id[1][1] \notin Members

\* C13: update_task on a task id that does not exist returns 404 (NotFound)
\* and changes nothing: the tasks table is as it was, and no activity,
\* indexing job or broadcast is started.
C13_UnknownTaskNotFound ==
    (last.op = "update" /\ last.id \notin DOMAIN last.before) =>
        /\ last.status = 404
        /\ tasks = last.before
        /\ NothingStarted

\* task 1 exists, an update with a description was sent to task 2
C13_Witness ==
    /\ last.op = "update" /\ last.status = 404
    /\ last.id = 2 /\ DOMAIN tasks = {1}
    /\ last.P.description = Some("d1")
    /\ tasks = last.before /\ NothingStarted

\* C14: when the primary UPDATE of update_task fails (the payload names a
\* board or a member that does not exist) the call reports 500
\* (InternalError), the stored task equals its value before the call, and no
\* activity, indexing job or broadcast is started for the call.
C14_FailedUpdateNoPartialCommit ==
    /\ (last.op = "update" /\ last.id \in DOMAIN last.before /\ NamesMissingRow) =>
           last.status = 500
    /\ (last.op = "update" /\ last.status = 500) =>
           /\ tasks = last.before
           /\ NothingStarted

\* a stored task was sent to board b2 before b2 existed
C14_Witness ==
    /\ last.op = "update" /\ last.status = 500
    /\ last.id \in DOMAIN tasks
    /\ last.P.board_id = Some("b2") /\ "b2" \notin boards
    /\ last.P.title = Some("B") /\ tasks[last.id].title = "A" /\ tasks[last.id].board_id = "b1"
    /\ NothingStarted

\* C15: create_task with board_id omitted fails with 400 (BadRequest) when
\* zero boards exist, and creates no task; when exactly one board exists (and
\* the body carries a title) the task is created on that board.
C15_NoBoardBadRequest ==
    (last.op = "create" /\ Carried(last.P.board_id) = "") =>
        /\ boards = {} => last.status = 400 /\ tasks = last.before
        /\ (Cardinality(boards) = 1 /\ Carried(last.P.title) # "") =>
               /\ last.status = 200
               /\ DOMAIN tasks = DOMAIN last.before \cup {last.id}
               /\ last.id \notin DOMAIN last.before
               /\ tasks[last.id].board_id \in boards

\* the last request was a create_task that reported success
CreatedOK == last.op = "create" /\ last.status = 200
\* the body r of a listing holds task i with the fields f names
Lists(r, i, f) ==
    \E k \in DOMAIN r :
        /\ r[k].id = i
        /\ r[k].board_id = f.board_id /\ r[k].list_id = f.list_id /\ r[k].position = f.position

\* C16: after a successful create_task every listing of the task's board
\* includes the task with the supplied board_id and position and with the
\* supplied list_id, or 'todo' when none (or an empty one) was supplied; this
\* lasts until an update changes the task: a stored row changes only in a
\* successful update_task of that task, no row disappears, and every listing
\* of a board includes each of its tasks as stored.
C16_CreatedTaskListed ==
    /\ [](CreatedOK =>
            /\ Carried(last.P.board_id) # "" => tasks[last.id].board_id = last.P.board_id[1]
            /\ getBoardTasks(tasks[last.id].board_id) # {}
            /\ \A r \in getBoardTasks(tasks[last.id].board_id) :
                   Lists(r, last.id,
                         [board_id |-> tasks[last.id].board_id,
                          position |-> IF last.P.position = Absent THEN 0 ELSE last.P.position[1],
                          list_id |-> IF Carried(last.P.list_id) # "" THEN last.P.list_id[1]
                                      ELSE "todo"]))
    /\ [](\A i \in DOMAIN tasks :
             \A r \in getBoardTasks(tasks[i].board_id) : Lists(r, i, tasks[i]))
    /\ [][/\ DOMAIN tasks \subseteq DOMAIN tasks'
          /\ \A i \in DOMAIN tasks :
                 tasks'[i] # tasks[i] =>
                     last'.op = "update" /\ last'.id = i /\ last'.status = 200]_vars

\* a task was created on board b2 in list doing at position 1 and the
\* listing of b2 shows it so; another was created with a title alone and
\* the listing of b1 shows it in list todo
C16_Witness ==
    /\ CreatedOK
    /\ last.P.board_id = Some("b2") /\ last.P.list_id = Some("doing") /\ last.P.position = Some(1)
    /\ \E r \in getBoardTasks("b2") :
           Lists(r, last.id, [board_id |-> "b2", list_id |-> "doing", position |-> 1])
    /\ \E r \in getBoardTasks("b1") : \E k \in DOMAIN r : r[k].list_id = "todo"

\* C17: list_tasks(board_id) returns exactly the tasks whose board_id is
\* that board, each once and as stored, in non-decreasing order of position,
\* after any sequence of creates and updates.
C17_ListExactAndOrdered ==
    \A b \in BoardIds :
        /\ getBoardTasks(b) # {}
        /\ \A r \in getBoardTasks(b) :
               /\ {r[k].id : k \in DOMAIN r} = {i \in DOMAIN tasks : tasks[i].board_id = b}
               /\ \A k, l \in DOMAIN r : k # l => r[k].id # r[l].id
               /\ \A k \in DOMAIN r : r[k] = TaskJSON(r[k].id)
               /\ \A k, l \in DOMAIN r : k < l => r[k].position <= r[l].position

\* board b1 holds task 1 at position 1 and task 2 at position 0 after an
\* update: its listing shows task 2 before task 1
C17_Witness ==
    /\ UpdatedOK
    /\ Selected("b1") = {1, 2}
    /\ tasks[1].position = 1 /\ tasks[2].position = 0
    /\ \A r \in getBoardTasks("b1") : Len(r) = 2 /\ r[1].id = 2 /\ r[2].id = 1

\* number of "UPDATE" messages the broadcast of call b wrote to connection c
Written(c, b) == Cardinality({k \in DOMAIN tokens[c] : tokens[c][k] = b})
\* goroutines inside a critical section of clientsMu
Registering == {c \in Conns : conns[c].pc \in {"register", "unregister"}}
Ranging == {b \in DOMAIN bcasts : bcasts[b].pc = "range"}

\* C18: with subscriber channels registered and staying open, each
\* successful create_task or update_task call eventually results in exactly
\* one 'UPDATE' token written to each of them, never zero and never two for
\* the same call: a successful call starts its broadcast, and every started
\* broadcast eventually finishes; it writes at
\* most once to a channel, and only to channels of the live set it found;
\* once finished it has written exactly once to every channel of that set
\* whose write did not fail; and a channel leaves the live set only after its
\* peer has gone, so a channel that is registered when the call is made and
\* stays open is in the set the broadcast finds.
C18_OneTokenPerChannel ==
    /\ [](CalledOK => LastCall \in DOMAIN bcasts)
    /\ [][DOMAIN bcasts \subseteq DOMAIN bcasts']_vars
    /\ []<>(\A b \in DOMAIN bcasts : bcasts[b].pc = "done")
    /\ [](\A b \in DOMAIN bcasts : \A c \in Conns :
             /\ Written(c, b) <= 1
             /\ Written(c, b) = 1 => c \in bcasts[b].ranged \ bcasts[b].failed
             /\ (bcasts[b].pc = "done" /\ c \in bcasts[b].ranged \ bcasts[b].failed) =>
                    Written(c, b) = 1
             /\ (c \in bcasts[b].failed \/ bcasts[b].pc = "start") => Written(c, b) = 0)
    /\ [](\A c \in Conns : \A k \in DOMAIN tokens[c] : tokens[c][k] \in DOMAIN bcasts)
    /\ [][\A c \in clients : c \notin clients' => ~conns[c].alive]_vars
    /\ [][\A b \in DOMAIN bcasts :
             (bcasts[b].pc = "start" /\ bcasts'[b].pc # "start") => bcasts'[b].ranged = clients]_vars

\* two calls succeeded while both channels were registered and open, both
\* broadcasts are over, and each channel holds one token of each call
C18_Witness ==
    /\ Cardinality(DOMAIN bcasts) = 2
    /\ \A b \in DOMAIN bcasts : bcasts[b].pc = "done" /\ bcasts[b].ranged = Conns
    /\ \A c \in Conns : conns[c].alive /\ c \in clients /\ Len(tokens[c]) = 2
    /\ \A c \in Conns : \A b \in DOMAIN bcasts : Written(c, b) = 1

\* C19: during a broadcast a write failure on one channel removes exactly
\* that channel from the live set, and every other channel of the set still
\* receives the token in the same broadcast: a failing write takes the
\* channel written to, and nothing else, out of the set; while the broadcast
\* ranges the set is the set it found less the channels whose write failed;
\* when it is over every channel it found whose write did not fail holds its
\* token.
C19_FailureIsolated ==
    /\ [](\A b \in DOMAIN bcasts :
             /\ bcasts[b].pc = "range" =>
                    /\ clients = bcasts[b].ranged \ bcasts[b].failed
                    /\ \A c \in bcasts[b].ranged \ (bcasts[b].todo \cup bcasts[b].failed) :
                           Written(c, b) = 1
             /\ bcasts[b].pc = "done" =>
                    \A c \in bcasts[b].ranged \ bcasts[b].failed : Written(c, b) = 1)
    /\ [][\A b \in DOMAIN bcasts : \A ch \in Conns :
             (ch \in bcasts'[b].failed /\ ch \notin bcasts[b].failed) =>
                 /\ ch \in clients /\ clients' = clients \ {ch}
                 /\ tokens' = tokens]_vars

\* a broadcast found both channels, its write to w1 failed and w1 left the
\* set, and w2 holds the token of that broadcast
C19_Witness ==
    \E b \in DOMAIN bcasts :
        /\ bcasts[b].pc = "done"
        /\ bcasts[b].ranged = {"w1", "w2"} /\ bcasts[b].failed = {"w1"}
        /\ "w1" \notin clients
        /\ Written("w2", b) = 1 /\ Written("w1", b) = 0

\* C20: register, unregister and broadcast are mutually exclusive on the
\* live channel set: at most one goroutine is between a clientsMu.Lock() and
\* its Unlock(), it is the holder of the mutex, the set changes only in a
\* step of the holder, and no two broadcasts range over the set (and so write
\* to a channel) at the same time.
C20_MutualExclusion ==
    /\ [](/\ Cardinality(Registering) + Cardinality(Ranging) <= 1
          /\ \A c \in Registering : clientsMu = Handler(c)
          /\ \A b \in Ranging : clientsMu = Broadcaster(b)
          /\ clientsMu = Free => Registering = {} /\ Ranging = {})
    /\ [][clients' # clients => clientsMu # Free]_vars

\* a broadcast ranges over the set while the handler of a new connection
\* and another broadcast wait at their Lock
C20_Witness ==
    /\ \E b \in Ranging : bcasts[b].todo # {}
    /\ \E c \in Conns : conns[c].pc = "lock"
    /\ \E b \in DOMAIN bcasts : bcasts[b].pc = "start"

\* C21: a channel is in the live set only between its registration and its
\* close or first write error: a member of the set has a handler that has
\* registered and not ended; once the handler has ended, or a broadcast
\* write to the channel has failed, the channel is not in the set; a channel
\* enters the set only in the registration step of its handler; and a
\* broadcast writes only to members of the set, so none writes to a channel
\* after its removal, also when both removals happen for the same channel.
C21_LiveSetMembership ==
    /\ [](\A c \in Conns :
             /\ c \in clients => conns[c].pc \in {"read", "deferred", "unregister"}
             /\ conns[c].pc = "closed" => c \notin clients
             /\ (\E b \in DOMAIN bcasts : c \in bcasts[b].failed) => c \notin clients)
    /\ [][\A c \in Conns :
             /\ (c \notin clients /\ c \in clients') => conns[c].pc = "register"
             /\ tokens'[c] # tokens[c] => c \in clients]_vars

\* a write to w1 failed in one broadcast, the handler of w1 then ran its
\* deferred removal and ended, and a later broadcast found the set without
\* w1 and wrote nothing to it
C21_Witness ==
    /\ conns["w1"].pc = "closed" /\ "w1" \notin clients
    /\ \E b1, b2 \in DOMAIN bcasts :
           /\ "w1" \in bcasts[b1].failed
           /\ bcasts[b2].pc = "done" /\ bcasts[b2].ranged = {"w2"}
           /\ Written("w2", b2) = 1 /\ Written("w1", b2) = 0

\* the indexing goroutines started for a row and not yet run / already run
JobsPending(table, id) == {j \in indexing : j.table = table /\ j.id = id}
JobsDone(table, id) == {f \in finished : f.job.table = table /\ f.job.id = id}
\* title + " " + description of a stored task
TextOfRow(r) == <<r.title, " ", r.description>>

\* C22: once every write of a task has returned and every indexing job
\* started for the task has run and stored its vector, the embedding column
\* of the task holds the vector of its current title + " " + description.
C22_EmbeddingIsCurrent ==
    \A id \in DOMAIN tasks :
        (/\ JobsPending("tasks", id) = {}
         /\ \A f \in JobsDone("tasks", id) : f.logged = "")
        => embedding[id] = VectorOf(TextOfRow(tasks[id]))

\* the record of the goroutine j that ran in this step
Ran(j) == CHOOSE f \in finished' \ finished : f.job = j

\* C23: an indexing job (of a task or of a document) that fails at any step
\* (no provider, transport error, non-200 answer, undecodable answer, failed
\* write) leaves both embedding columns as they were, and no job is retried:
\* a job posts to the provider at most twice, runs once, and starts no
\* other job.
C23_FailedJobLeavesEmbedding ==
    /\ [][\A j \in indexing : j \notin indexing' =>
             /\ Len(Ran(j).result.calls) <= 2
             /\ indexing' = indexing \ {j}
             /\ Ran(j).logged # "" =>
                   /\ embedding' = embedding /\ docs' = docs
                   /\ j.table = "tasks" => embedding'[j.id] = Ran(j).before
                   /\ j.table = "documents" /\ j.id \in DOMAIN docs' =>
                         docs'[j.id].embedding = Ran(j).before]_vars
    /\ [](\A f \in finished : f.job \notin indexing)

\* the job of a created document stored its vector; the job of the update
\* that rewrote the content posted to both models, got 404 and then 500,
\* and the document still carries the vector of its first text
C23_Witness ==
    /\ 1 \in DOMAIN docs /\ docs[1].content = "c"
    /\ docs[1].embedding = VectorOf(<<"A", " ", "">>)
    /\ \E f \in JobsDone("documents", 1) :
          /\ f.logged = "Emb err" /\ f.result.err = "gemini api error"
          /\ f.result.calls = <<Post(PrimaryModel, "404"), Post(FallbackModel, "500")>>
          /\ f.before = docs[1].embedding
    /\ JobsPending("documents", 1) = {}

\* C24: the provider chain posts to the fallback model if and only if the
\* primary model answered 404; it then returns the vector of the text when
\* the fallback answered with a decodable 200 and an error otherwise; any
\* other answer of the primary model than a decodable 200 is an error after
\* that single post, and a decodable 200 is the vector of the text.
C24_FallbackOnlyOnNotFound ==
    \A f \in finished :
        LET r == f.result
            c == r.calls
        IN /\ Len(c) <= 2
           /\ c # <<>> => c[1][1] = PrimaryModel
           /\ Len(c) = 2 <=> (c # <<>> /\ c[1][2] = "404")
           /\ Len(c) = 2 =>
                 /\ c[2][1] = FallbackModel
                 /\ IF c[2][2] = "200"
                    THEN r.err = "" /\ r.vec = VectorOf(f.job.text)
                    ELSE r.err # "" /\ r.vec = Null
           /\ Len(c) = 1 =>
                 IF c[1][2] = "200"
                 THEN r.err = "" /\ r.vec = VectorOf(f.job.text)
                 ELSE r.err # "" /\ r.vec = Null

\* the primary model answered 404, the fallback model a vector, and the
\* task carries that vector; another job got 500 from the primary model
\* and ended there
C24_Witness ==
    /\ \E f \in JobsDone("tasks", 1) :
          /\ f.result.calls = <<Post(PrimaryModel, "404"), Post(FallbackModel, "200")>>
          /\ f.logged = "" /\ embedding[1] = f.result.vec
          /\ f.result.vec = VectorOf(f.job.text)
    /\ \E f \in finished :
          /\ f.result.calls = <<Post(PrimaryModel, "500")>>
          /\ f.result.err = "gemini api error"

\* C25: a call of the provider chain that finds no credential of the primary
\* provider (GEMINI_API_KEY) while the secondary provider is configured
\* (OPENAI_API_KEY, from which initAI builds openaiClient) returns the
\* vector of the text instead of failing.
C25_FallsThroughToSecondary ==
    \A f \in finished :
        (f.env.GEMINI_API_KEY = "" /\ f.env.OPENAI_API_KEY # "")
        => f.result.err = "" /\ f.result.vec = VectorOf(f.job.text)

\* the step is a create_task or update_task request answered with 200
Answered == last' # last /\ last'.op \in {"create", "update"} /\ last'.status = 200
\* the call of the request answered in the step
AnsweredCall == CallOf(last'.op, IF last'.op = "create" THEN last'.id ELSE last'.call)

\* C26: create_task and update_task answer without waiting for the indexing
\* job or the broadcast: in the step that answers 200 the indexing job of the
\* call has been started and has not run, its broadcast has been started
\* and has not reached the mutex, and no goroutine has moved (no embedding
\* written, no job finished, no token written, the mutex as it was); and a
\* request can be served in every state, also while an indexing job is
\* waiting for the provider and a broadcast sits in a write to a subscriber
\* with the mutex held.
C26_ResponseDoesNotWait ==
    /\ [][Answered =>
             /\ \E j \in indexing' \ indexing : j.call = AnsweredCall
             /\ indexing \subseteq indexing'
             /\ AnsweredCall \notin DOMAIN bcasts
             /\ bcasts'[AnsweredCall] = NotStarted
             /\ \A b \in DOMAIN bcasts : bcasts'[b] = bcasts[b]
             /\ embedding' \in {embedding, Append(embedding, Null)}
             /\ finished' = finished /\ tokens' = tokens
             /\ clientsMu' = clientsMu /\ clients' = clients]_vars
    /\ []((/\ Cardinality(DOMAIN bcasts) < MaxCalls
           /\ indexing # {}
           /\ \E b \in Ranging : bcasts[b].todo # {})
          => /\ nextId <= MaxTasks => ENABLED (\E P \in CreatePayloads : createTask(P))
             /\ nUpdates < MaxUpdates => ENABLED (\E P \in AsyncPayloads : updateTask(1, P)))

\* an update has just been answered with 200: its indexing job and the job
\* of the create before it have not run, its broadcast has not started,
\* and the broadcast of the create holds the mutex with its write to w1
\* still to come
C26_Witness ==
    /\ UpdatedOK /\ tasks[last.id] = last.body
    /\ IndexingOf(LastCall) # {} /\ IndexingOf(CallOf("create", last.id)) # {}
    /\ finished = {}
    /\ bcasts[LastCall] = NotStarted
    /\ bcasts[CallOf("create", last.id)].pc = "range"
    /\ bcasts[CallOf("create", last.id)].todo = {"w1"}
    /\ clientsMu = Broadcaster(CallOf("create", last.id))

\* the last request was a semantic search / its query / its board scope
Searched == last.op \in {"searchTasks", "searchDocs"}
QueryOf == last.P[1]
ScopeOf == last.P[2]
\* HTTP statuses of the error kinds
BadRequest == 400
InternalError == 500
Unavailable == 503

\* C27: a semantic search (tasks or documents) that finds no embedding
\* provider configured fails with Unavailable (503), which is distinct from
\* the InternalError (500) a provider transport failure is answered with.
C27_NoProviderIsUnavailable ==
    /\ (Searched /\ last.err = "transport error") => last.status = InternalError
    /\ (Searched /\ last.err = "no AI provider configured") => last.status = Unavailable

\* C28: a semantic search with an empty query is answered BadRequest with
\* no provider call made and no SELECT run, and no search changes a stored
\* row, a sequence, or the indexing goroutines.
C28_EmptyQueryBadRequest ==
    /\ []((Searched /\ QueryOf = "") =>
             /\ last.status = BadRequest
             /\ last.calls = <<>> /\ ~last.queried /\ last.body = <<>>)
    /\ [][(last' # last /\ last'.op \in {"searchTasks", "searchDocs"}) =>
             UNCHANGED <<boards, tasks, nextId, embedding, docs, nextDocId, indexing, finished,
                         pending, activities, bcasts>>]_vars

\* a document search with an empty query and no scope is answered 400 while
\* an indexed document is stored
C28_Witness ==
    /\ last.op = "searchDocs" /\ QueryOf = "" /\ ScopeOf = ""
    /\ last.status = BadRequest /\ last.calls = <<>>
    /\ \E i \in DOMAIN docs : docs[i].embedding # Null

\* C30: a document search, with or without a board scope, returns no
\* document whose embedding was absent when the search ran.
C30_NoUnindexedDocument ==
    (last.op = "searchDocs" /\ last.status = 200) =>
        \A k \in DOMAIN last.body :
            /\ last.body[k].id \in DOMAIN last.before
            /\ last.before[last.body[k].id].embedding # Null

\* two documents on board b1 were searched within b1: the first is indexed,
\* the job of the second has failed or has not run yet, and the search
\* returned the first alone
C30_Witness ==
    /\ last.op = "searchDocs" /\ last.status = 200 /\ ScopeOf = "b1"
    /\ DOMAIN last.before = {1, 2}
    /\ last.before[1].embedding # Null /\ last.before[2].embedding = Null
    /\ Len(last.body) = 1 /\ last.body[1].id = 1
    /\ \/ JobsPending("documents", 2) # {}
       \/ \E f \in JobsDone("documents", 2) : f.logged # ""

\* the rows the last search found in its table, the rows it returned, and
\* the vector of its query
RowsSearched == last.before
Returned == [k \in DOMAIN last.body |-> last.body[k].id]
QueryVector == VectorOf(<<QueryOf>>)
\* row i is on the board the search asked for (every row when it asked for
\* none; a task search cannot ask for one)
InScope(i) == ScopeOf = "" \/ RowsSearched[i].board_id = ScopeOf
\* farther than any distance of two vectors
Farthest == 100
\* the distance of row i to the query; a row without embedding has none and
\* counts as farther than every row that has one
DistanceOfRow(i) ==
    IF RowsSearched[i].embedding = Null THEN Farthest
    ELSE Distance(RowsSearched[i].embedding, QueryVector)

\* C29: a successful semantic search returns at most 5 rows, each a
\* different stored row within the requested scope, in non-decreasing order
\* of distance to the query embedding; no in-scope row left out is strictly
\* nearer than a returned row; and a search that returns fewer than 5 rows
\* has left out no in-scope row that carries an embedding.
C29_NearestInScope ==
    (Searched /\ last.status = 200) =>
        /\ Len(Returned) <= 5
        /\ \A k \in DOMAIN Returned : Returned[k] \in DOMAIN RowsSearched /\ InScope(Returned[k])
        /\ \A k, l \in DOMAIN Returned :
              k < l => /\ Returned[k] # Returned[l]
                       /\ DistanceOfRow(Returned[k]) <= DistanceOfRow(Returned[l])
        /\ \A i \in DOMAIN RowsSearched :
              (InScope(i) /\ \A k \in DOMAIN Returned : Returned[k] # i) =>
                  /\ \A k \in DOMAIN Returned : DistanceOfRow(i) >= DistanceOfRow(Returned[k])
                  /\ Len(Returned) < 5 => RowsSearched[i].embedding = Null

\* a document search within board b1 over seven documents: six indexed
\* documents are on b1, of which the five nearest are returned and one that
\* is farther than all of them is left out, as is an indexed document of
\* board b2 that is nearer than the last row returned
C29_Witness ==
    /\ last.op = "searchDocs" /\ last.status = 200 /\ ScopeOf = "b1"
    /\ Len(Returned) = 5
    /\ Cardinality({i \in DOMAIN RowsSearched :
                       InScope(i) /\ RowsSearched[i].embedding # Null}) = 6
    /\ \E i \in DOMAIN RowsSearched :
          /\ InScope(i) /\ RowsSearched[i].embedding # Null
          /\ \A k \in DOMAIN Returned :
                Returned[k] # i /\ DistanceOfRow(Returned[k]) < DistanceOfRow(i)
    /\ \E i \in DOMAIN RowsSearched :
          ~InScope(i) /\ DistanceOfRow(i) < DistanceOfRow(Returned[5])

\* C31: activities are created only by an update_task whose stored list_id,
\* assignee_id or description changes: every logActivity goroutine is
\* started by the step of a successful update, for the task it updates and
\* for a field that step changed, and a row enters the ledger only as the
\* insert of a started goroutine. A create_task, an update that changes
\* only title, position or board_id, and every document, board and member
\* operation start no goroutine and write no row.
C31_OnlyFieldTransitionsLog ==
    [][/\ \A g \in pending' \ pending :
             /\ last'.op = "update" /\ last'.status = 200
             /\ g.call = last'.call /\ g.act.task_id = last'.id
             /\ LET old == last'.before[last'.id]
                    new == tasks'[last'.id]
                IN \/ g.act.action = "moved" /\ new.list_id # old.list_id
                   \/ /\ g.act.action \in {"assigned", "unassigned"}
                      /\ new.assignee_id # old.assignee_id
                   \/ g.act.action = "updated" /\ new.description # old.description
       /\ activities' # activities =>
             \E g \in pending : /\ activities' = Append(activities, g)
                                /\ pending' = pending \ {g}]_vars

\* a member was removed from the board, a task created and then renamed:
\* the title changed, and no call started a goroutine or left a row in the
\* ledger
C31_Witness ==
    /\ UpdatedOK
    /\ last.P = [NoMembers EXCEPT !.title = Some("B")]
    /\ OldRow.title = "A" /\ NewRow.title = "B"
    /\ pending = {} /\ activities = <<>>
    /\ <<"b1", "devo">> \notin boardMembers

\* the handlers that answer with a list
ListOps ==
    {"getBoards", "getBoardTasks", "getMembers", "getBoardMembers", "getTaskActivities",
     "getBoardDocs", "searchTasks", "searchDocs"}
Answered200(op) == last.op = op /\ last.status = 200

\* C33: every list operation (boards, a board's tasks, members, a board's
\* members, a task's activities, a board's documents, both searches) that
\* succeeds writes a JSON array: the empty array when no row matched, never
\* null.
C33_EmptyIsSequence ==
    \A op \in ListOps :
        Answered200(op) =>
            /\ last.json # "null"
            /\ last.body = <<>> <=> last.json = "[]"
            /\ last.body # <<>> <=> last.json = "[...]"

\* a document search finds no row although a document is stored (it has no
\* embedding yet) and answers with the empty array
C33_Witness ==
    /\ Answered200("searchDocs")
    /\ DOMAIN docs # {} /\ last.body = <<>> /\ last.json = "[]"

\* the last request read the activities of a task; the rows of the table as
\* the handler found it
ReadHistory == Answered200("getTaskActivities")
RowsOfTask == {k \in DOMAIN last.before : last.before[k].act.task_id = last.id}

\* C32: get_activities(task) returns exactly the activities of that task
\* (every row of the task once, no row of another task), newest first by
\* creation time, and the empty sequence when the task has none.
C32_ActivitiesNewestFirst ==
    last.op = "getTaskActivities" =>
        /\ last.status = 200
        /\ Len(last.body) = Cardinality(RowsOfTask)
        /\ \A k \in RowsOfTask : \E n \in DOMAIN last.body :
              /\ last.body[n].id = k
              /\ last.body[n].task_id = last.id
              /\ last.body[n].user_id = last.before[k].act.user_id
              /\ last.body[n].action = last.before[k].act.action
              /\ last.body[n].details = last.before[k].act.details
        /\ \A m, n \in DOMAIN last.body :
              m < n => last.body[m].created_at > last.body[n].created_at
        /\ RowsOfTask = {} => last.body = <<>> /\ last.json = "[]"

\* the ledger holds rows of two tasks; the task read has two of them, which
\* come back later row first
C32_Witness ==
    /\ ReadHistory
    /\ Len(last.body) = 2 /\ Len(last.before) > 2
    /\ last.body[1].id > last.body[2].id

\* the body of the last create_task or update_task names a member that is
\* not in table members
NamesUnknownMember ==
    /\ last.op \in {"create", "update"}
    /\ last.P.assignee_id # Absent /\ last.P.assignee_id # Some(Nil)
    /\ last.P.assignee_id[1][1] \notin Members

\* C34: in every reachable state each stored task's assignee_id is absent or
\* the id of an existing member; a create_task or update_task naming a
\* non-existent member fails and leaves the stored tasks unchanged.
C34_AssigneeIsMember ==
    /\ \A i \in DOMAIN tasks :
          tasks[i].assignee_id = Nil \/ tasks[i].assignee_id[1] \in Members
    /\ NamesUnknownMember => last.status >= 400 /\ tasks = last.before

\* a stored task is assigned to a member, and an update of it that names
\* 'ghost' was refused and left it assigned to that member
C34_Witness ==
    /\ NamesUnknownMember /\ last.op = "update" /\ last.status = 500
    /\ last.id \in DOMAIN tasks /\ tasks[last.id].assignee_id = Ptr("devo")

\* C35: deleting a board removes all tasks, documents and membership rows of
\* that board and of no other board (the step that takes a board out of
\* table boards leaves exactly the rows of the other boards, unchanged), and
\* a list_tasks on a board id that is not in table boards answers with the
\* empty sequence and not with an error.
C35_BoardDeletionCascades ==
    /\ [][\A b \in boards \ boards' :
             /\ DOMAIN tasks' = {i \in DOMAIN tasks : tasks[i].board_id # b}
             /\ \A i \in DOMAIN tasks' : tasks'[i] = tasks[i]
             /\ DOMAIN docs' = {i \in DOMAIN docs : docs[i].board_id # b}
             /\ \A i \in DOMAIN docs' : docs'[i] = docs[i]
             /\ boardMembers' = {r \in boardMembers : r[1] # b}]_vars
    /\ [](\A b \in BoardIds \ boards :
             /\ getBoardTasks(b) = {<<>>}
             /\ (last.op = "getBoardTasks" /\ last.P = <<b>>) =>
                    last.status = 200 /\ last.json = "[]")

\* board b1 was deleted with a task and a document on it: both are gone,
\* the task and the membership of board b2 are still there
C35_Witness ==
    /\ last.op = "deleteBoard" /\ last.P = <<"b1">>
    /\ \E i \in DOMAIN last.before : last.before[i].board_id = "b1"
    /\ DOMAIN tasks # {} /\ \A j \in DOMAIN tasks : tasks[j].board_id = "b2"
    /\ nextDocId > 1 /\ DOMAIN docs = {}
    /\ boardMembers = {<<"b2", "mirza">>}

\* ---------------------------------------------------------------------
\* C36: the adapter serves no endpoint (it creates no session and forwards
\* no tool call) unless the request's Authorization header equals "Bearer "
\* followed by the configured credential; when no credential is configured
\* no request reaches an endpoint and every request to a route is answered
\* 500.
KeyConfigured == mcp.MCP_API_KEY # Absent /\ mcp.MCP_API_KEY[1] # <<>>
Authorized(call) ==
    /\ KeyConfigured
    /\ call.authorization = Some(<<"Bearer ">> \o mcp.MCP_API_KEY[1])
C36_OnlyBearerCredentialServed ==
    /\ [](mcp.last.served \/ mcp.last.forwarded \/ mcp.last.created # 0 => Authorized(mcp.last))
    /\ [](~KeyConfigured =>
            /\ SessionsCreated(mcp) = 0
            /\ mcp.last.route \notin {"none", "OPTIONS"} => mcp.last.status = 500)
    /\ [][SessionsCreated(mcp') > SessionsCreated(mcp) => Authorized(mcp'.last)]_vars
C36_Witness ==
    /\ mcp.streamableTransports # {}
    /\ mcp.last.forwarded
    /\ Authorized(mcp.last)
C36_WitnessRejected ==
    /\ mcp.last.status = 401
    /\ mcp.last.authorization = Some(<<"Bearer ", "x">>)

\* ---------------------------------------------------------------------
\* C40: the adapter's registry of streamable sessions holds only session
\* ids assigned by a completed initialize request whose transport has not
\* closed, also when the transport closes while its initialize request is
\* still being handled; and a POST, GET or DELETE /mcp that names no
\* registered session and is not a session-less initialize is answered 400
\* and creates no session.
LiveSession(sid) ==
    /\ sid \in DOMAIN mcp.transports
    /\ mcp.transports[sid].sessionId = sid
    /\ mcp.transports[sid].pc = "done"
    /\ ~mcp.transports[sid].closed
SessionlessInitialize(call) ==
    call.route = "POST /mcp" /\ call.sid = 0 /\ call.rpc = "initialize"
C40_BadSessionIs400 ==
    mcp.last.route \in McpRoutes /\ mcp.last.served /\ ~mcp.last.known
        /\ ~SessionlessInitialize(mcp.last)
    => mcp.last.status = 400 /\ mcp.last.created = 0
C40_RegistryHoldsLiveSessions ==
    /\ \A sid \in mcp.streamableTransports : LiveSession(sid)
    /\ C40_BadSessionIs400

\* ---------------------------------------------------------------------
\* C38: once the update_task calls on a task and their activity writes
\* have finished, the newest 'moved' activity that get_activities returns
\* for the task, if there is one, names the task's current list_id.
MovedEntries == {n \in DOMAIN last.body : last.body[n].action = "moved"}
C38_NewestMoveIsCurrentList ==
    ReadHistory /\ pending = {} /\ last.id \in DOMAIN tasks /\ MovedEntries # {} =>
        LET newest == CHOOSE n \in MovedEntries : \A m \in MovedEntries : n <= m
        IN last.body[newest].details = MovedDetails(tasks[last.id].list_id)

\* ---------------------------------------------------------------------
\* C37: when two update_task calls on one task run concurrently, the task
\* finally stored is the result of running the two calls one after the
\* other in some order; an update of one field is not lost to a concurrent
\* update of another field.
HandlersOf(id) == {h \in inflight : h.id = id}
OneAfterTheOther(row, first, second) ==
    RowOf(MergeTask(RowOf(MergeTask(row, BodyParser(first.P))), BodyParser(second.P)))
C37_ConcurrentUpdatesSerialise ==
    \A id \in DOMAIN tasks :
       \A a, b \in HandlersOf(id) :
          /\ HandlersOf(id) = {a, b}
          /\ a.call < b.call
          /\ a.pc = "done" /\ b.pc = "done"
          /\ a.status = 200 /\ b.status = 200
          => tasks[id] \in {OneAfterTheOther(a.oldTask, a, b), OneAfterTheOther(a.oldTask, b, a)}

\* ---------------------------------------------------------------------
\* C39: the dispatcher hands a task that is in 'todo' and assigned to a
\* known agent to an agent session at most once, and only after its move
\* to 'doing' was accepted, for every timing of the poll cycles, a cycle
\* that starts while an earlier one is still processing tasks included.
C39_MovedBeforeHandedOver ==
    \A n \in DOMAIN disp.sessions :
       /\ disp.sessions[n].task \in DOMAIN tasks
       /\ tasks[disp.sessions[n].task].list_id = "doing"
C39_HandedOverAtMostOnce ==
    /\ \A m, n \in DOMAIN disp.sessions :
          disp.sessions[m].task = disp.sessions[n].task => m = n
    /\ C39_MovedBeforeHandedOver

====
